---- MODULE Spec2Model ----
(***************************************************************************)
(* A model of the reactive core of sketchy-bot-framework:                  *)
(*   - Core (src/src/core.py): one triggering bet is evaluated by every    *)
(*     strategy, the results are reconciled and the merged bets placed;    *)
(*   - ManifoldClient._make_request (src/src/manifold_client.py): the      *)
(*     cached, retrying HTTP layer;                                        *)
(*   - ManifoldClient's WebSocket session: connect, subscribe, keep-alive, *)
(*     reconnect with backoff, listen.                                     *)
(* Each part has its own next-state relation and specification; the        *)
(* variables of the other parts stay at their initial values.              *)
(***************************************************************************)
EXTENDS Integers, Sequences, FiniteSets, TLC

VARIABLES
    \* ---- Core (core.py) ----
    cpc,          \* position of the on_bet handler
    results,      \* outcome of each strategy's evaluate_and_propose task
    mkt_type,     \* mkt.outcome_type of the market fetched by on_bet_impl
    proposed,     \* proposed_result.bets, the list on_bet_impl iterates
    bet_idx,      \* index of the next proposed bet in the for loop
    placed,       \* the place_bet calls made for this event
    core_log,     \* records given to logger.log by Core for this event
    \* ---- HTTP layer (manifold_client.py, _make_request) ----
    now,          \* time.time(), in clock ticks
    cache,        \* self._cache: cache key -> (timestamp, data)
    srv_ver,      \* the version of the data the server answers with
    req,          \* per calling task: the _make_request call it is in
    last_read,    \* per cache key: the last read that returned (history)
    nreq,         \* number of _make_request calls started
    \* ---- WebSocket session (manifold_client.py) ----
    ws,               \* self.ws: 0 for None, else the socket
    connected,        \* self.connected
    is_reconnecting,  \* self._is_reconnecting
    ping_task,        \* self._ping_task: 0 for None, else the task
    ping,             \* per keep-alive task: "none", "alive", "ended" (its
                      \* loop was left or it was cancelled) or "failed"
    open_socks,       \* the sockets whose connection is open
    nsock,            \* sockets opened so far
    txid,             \* self.txid
    subscriptions,    \* self.subscriptions: topic -> callbacks
    sub_log,          \* per socket: the subscribe frames sent on it
    ws_log,           \* the ErrorEvents the session gave to logger.log
    delays,           \* the sleeps of the reconnect procedure under way
    th,               \* per task: where it is in connect/disconnect/listen
    nops,             \* calls made by the calling tasks
    shut,             \* a call of disconnect() has returned and neither
                      \* connect() nor listen() was called since
    \* ---- one strategy evaluation (base_strategy.py) ----
    epc,              \* position of evaluate_and_propose
    estrat,           \* the strategy evaluating
    einput,           \* what the triggering bet and the market make of
                      \* each qualifier and of propose_bet
    q_idx,            \* index of the next qualifier of the chain
    q_invoked,        \* the qualifiers whose qualify was called, in order
    fail_result,      \* what _run_qualifiers returned
    propose_calls,    \* calls of propose_bet
    eresult,          \* what evaluate_and_propose returned
    \* ---- one reconciliation of a batch of results (core.py:104-155) ----
    comb_pc,          \* position of get_proposed_response_result
    comb_in,          \* the results asyncio.gather returned
    comb_out,         \* what came out of the reconciliation
    \* ---- one construction of a ProposedBet (proposed_bet.py) ----
    pb_pc,            \* position of the constructor
    pb_args,          \* the arguments it was called with
    pb,               \* the object, or the error raised
    \* ---- the dispatch of frames in listen() (manifold_client.py:585-615) ----
    d_subs,           \* self.subscriptions: topic -> the callbacks, in order
    d_nreg,           \* registrations made so far
    d_pc,             \* position of listen(): at recv or awaiting a callback
    d_frame,          \* the frame being dispatched
    d_idx,            \* position of the for loop in the list of callbacks
    d_calls,          \* the callbacks awaited for this frame, in order
    d_raised,         \* those of them that raised
    d_log,            \* the ErrorEvents logged for this frame
    d_hist,           \* the frames dealt with, each with its calls and events
    d_txid,           \* self.txid
    d_sent,           \* the frames written to the socket, in order
    \* ---- the calls of subscribe and unsubscribe (manifold_client.py:624-668) ----
    d_returned,       \* the callbacks whose call of subscribe has returned
    d_unsub,          \* the call of unsubscribe that is under way
    d_nunsub,         \* calls of unsubscribe made so far
    \* ---- one call of MarketLiquidityQualifier.qualify (qualifiers.py:95-137) ----
    ql_pc,           \* position of the call
    ql_in,           \* the bet and the market it is called with
    ql_out,          \* the QualificationResult returned
    \* ---- HousekeepingStrategy (housekeeping_strategy.py) ----
    hk_clock,        \* datetime.now(), in minutes
    hk_last_run,     \* self._last_run
    hk_last_loan_request, \* self._last_loan_request
    hk_run           \* the call of propose_bet under way

coreVars == <<cpc, results, mkt_type, proposed, bet_idx, placed, core_log>>
httpVars == <<now, cache, srv_ver, req, last_read, nreq>>

wsVars == <<ws, connected, is_reconnecting, ping_task, ping, open_socks, nsock,
           txid, subscriptions, sub_log, ws_log, delays, th, nops, shut>>
stratVars == <<epc, estrat, einput, q_idx, q_invoked, fail_result,
              propose_calls, eresult>>
combVars == <<comb_pc, comb_in, comb_out>>
betVars == <<pb_pc, pb_args, pb>>
dispVars == <<d_subs, d_nreg, d_pc, d_frame, d_idx, d_calls, d_raised, d_log,
             d_hist, d_txid, d_sent>>
subsVars == <<d_returned, d_unsub, d_nunsub>>
qualVars == <<ql_pc, ql_in, ql_out>>
hkVars == <<hk_clock, hk_last_run, hk_last_loan_request, hk_run>>
nonCoreVars == <<httpVars, wsVars, stratVars, combVars, betVars, dispVars, subsVars, qualVars, hkVars>>
nonHttpVars == <<coreVars, wsVars, stratVars, combVars, betVars, dispVars, subsVars, qualVars, hkVars>>
nonWsVars == <<coreVars, httpVars, stratVars, combVars, betVars, dispVars, subsVars, qualVars, hkVars>>
nonStratVars == <<coreVars, httpVars, wsVars, combVars, betVars, dispVars, subsVars, qualVars, hkVars>>
nonCombVars == <<coreVars, httpVars, wsVars, stratVars, betVars, dispVars, subsVars, qualVars, hkVars>>
nonBetVars == <<coreVars, httpVars, wsVars, stratVars, combVars, dispVars, subsVars, qualVars, hkVars>>
nonDispVars == <<coreVars, httpVars, wsVars, stratVars, combVars, betVars, subsVars, qualVars, hkVars>>
nonSubsVars == <<coreVars, httpVars, wsVars, stratVars, combVars, betVars, dispVars, qualVars, hkVars>>
nonRegistryVars == <<coreVars, httpVars, wsVars, stratVars, combVars, betVars, qualVars, hkVars>>
nonQualVars == <<coreVars, httpVars, wsVars, stratVars, combVars, betVars, dispVars, subsVars, hkVars>>
nonHkVars == <<coreVars, httpVars, wsVars, stratVars, combVars, betVars, dispVars, subsVars, qualVars>>

vars == <<coreVars, httpVars, wsVars, stratVars, combVars, betVars, dispVars, subsVars, qualVars, hkVars>>

----------------------------------------------------------------------------
(* Small helpers *)

Max2(a, b) == IF a >= b THEN a ELSE b
Min2(a, b) == IF a <= b THEN a ELSE b

SetMax(S) == CHOOSE x \in S : \A y \in S : y <= x
SetMin(S) == CHOOSE x \in S : \A y \in S : x <= y

\* all sequences over S of length at most n
SeqsUpTo(S, n) == UNION {[1..k -> S] : k \in 0..n}

\* the elements of a sequence
Range(s) == {s[i] : i \in 1..Len(s)}

----------------------------------------------------------------------------
(* Core: src/src/core.py *)

\* self.strategies, in registration order (core.py:17); asyncio.gather
\* returns the results in this order.
StrategyOrder == <<"S1", "S2">>
Strategies == Range(StrategyOrder)

\* the most bets one strategy result carries
MaxBets == 2

Contracts == {"m1"}
Answers == {"None", "a1"}          \* "None": ProposedBet.answer_id is None
Outcomes == {"YES", "NO"}
\* (amount, limit_prob in hundredths) as a strategy sizes a bet
Sizings == {<<0, 60>>, <<20, 55>>}

\* ProposedBet as evaluate_and_propose hands it over: b.source_strategy is
\* the strategy's class name (base_strategy.py:145-147).
ProposedBet(c, a, o, z, s) ==
    [contract_id |-> c, answer_id |-> a, outcome |-> o,
     amount |-> z[1], limit_prob |-> z[2], source_strategy |-> <<s>>]

BetsOf(s) == {ProposedBet(c, a, o, z, s) :
                 c \in Contracts, a \in Answers, o \in Outcomes, z \in Sizings}

Pending == [kind |-> "pending"]

\* What evaluate_and_propose can come back with: a StrategyResult carrying a
\* qualification-failure event, one carrying bets (possibly none), or an
\* exception raised inside the strategy.
StrategyOutcomes(s) ==
    {[kind |-> "event"], [kind |-> "raise"]}
    \cup {[kind |-> "bets", bets |-> bs] : bs \in SeqsUpTo(BetsOf(s), MaxBets)}

Triple(b) == <<b.contract_id, b.answer_id, b.outcome>>

\* core.py:140
matching_bets(bets, bet) ==
    {i \in 1..Len(bets) : /\ bets[i].contract_id = bet.contract_id
                          /\ bets[i].answer_id = bet.answer_id
                          /\ bets[i].outcome = bet.outcome}

\* core.py:147-149, the limit of the merged bet
merged_limit_alt(finalized_bet, bet) ==
    Max2(bet.limit_prob, finalized_bet.limit_prob)

merged_limit(finalized_bet, bet) ==
    IF finalized_bet.outcome = "YES"
    THEN Max2(bet.limit_prob, finalized_bet.limit_prob)
    ELSE Min2(bet.limit_prob, finalized_bet.limit_prob)

\* core.py:144-151, the in-place update of the stored bet
merge_into(finalized_bet, bet) ==
    [finalized_bet EXCEPT
        !.amount = Max2(bet.amount, finalized_bet.amount),
        !.limit_prob = merged_limit(finalized_bet, bet),
        !.source_strategy = finalized_bet.source_strategy \o bet.source_strategy]

\* core.py:136-153 as it would be if a bet that is already the merge of two
\* could not take a third
combine_step_alt(acc, bet) ==
    IF acc.raised THEN acc
    ELSE LET m == matching_bets(acc.bets, bet) IN
         IF Cardinality(m) = 0
         THEN [acc EXCEPT !.bets = Append(acc.bets, bet)]
         ELSE IF \A i \in m : Len(acc.bets[i].source_strategy) = 1
         THEN LET i == CHOOSE j \in m : TRUE IN
              [acc EXCEPT !.bets[i] = merge_into(acc.bets[i], bet)]
         ELSE [acc EXCEPT !.raised = TRUE]

\* core.py:136-153, one iteration of the inner loop; acc.raised records
\* the "Invariant broken" exception
combine_step(acc, bet) ==
    IF acc.raised THEN acc
    ELSE LET m == matching_bets(acc.bets, bet) IN
         IF Cardinality(m) = 0
         THEN [acc EXCEPT !.bets = Append(acc.bets, bet)]
         ELSE IF Cardinality(m) = 1
         THEN LET i == CHOOSE j \in m : TRUE IN
              [acc EXCEPT !.bets[i] = merge_into(acc.bets[i], bet)]
         ELSE [acc EXCEPT !.raised = TRUE]

RECURSIVE combine_fold(_, _)
combine_fold(acc, bs) ==
    IF bs = <<>> THEN acc
    ELSE combine_fold(combine_step(acc, Head(bs)), Tail(bs))

\* the bets of a list of strategy results, in loop order (core.py:134-135)
RECURSIVE all_bets(_)
all_bets(rs) ==
    IF rs = <<>> THEN <<>> ELSE Head(rs).bets \o all_bets(Tail(rs))

\* core.py:131-155
combine_strat_results(rs) ==
    combine_fold([bets |-> <<>>, raised |-> FALSE], all_bets(rs))

\* core.py:116-122: the results that carry bets and no event
RECURSIVE bet_results(_)
bet_results(rs) ==
    IF rs = <<>> THEN <<>>
    ELSE IF Head(rs).kind = "bets" /\ Head(rs).bets # <<>>
         THEN <<Head(rs)>> \o bet_results(Tail(rs))
         ELSE bet_results(Tail(rs))

\* core.py:104-129, once asyncio.gather has returned rs without raising.
get_proposed_response_result(rs) ==
    LET br == bet_results(rs) IN
    IF Len(br) = 0 THEN [bets |-> <<>>, raised |-> FALSE]
    ELSE IF Len(br) = 1 THEN [bets |-> br[1].bets, raised |-> FALSE]
    ELSE combine_strat_results(br)

GatherResults == [i \in 1..Len(StrategyOrder) |-> results[StrategyOrder[i]]]

InitCore ==
    /\ cpc = "idle"
    /\ results = [s \in Strategies |-> Pending]
    /\ mkt_type = "BINARY"
    /\ proposed = <<>>
    /\ bet_idx = 1
    /\ placed = <<>>
    /\ core_log = <<>>

\* core.py:35-60: listen() awaits on_bet for a broadcast; on_bet_impl
\* fetches the market and its bets and starts one task per strategy.
OnBet ==
    /\ cpc = "idle"
    /\ \E t \in {"BINARY", "MULTIPLE_CHOICE"} : mkt_type' = t
    /\ cpc' = "gather"
    /\ results' = [s \in Strategies |-> Pending]
    /\ proposed' = <<>>
    /\ bet_idx' = 1
    /\ placed' = <<>>
    /\ core_log' = <<>>
    /\ UNCHANGED nonCoreVars

\* core.py:55-59 raising (get_market / get_bets fail): on_bet logs it.
OnBetFetchFails ==
    /\ cpc = "idle"
    /\ cpc' = "done"
    /\ results' = [s \in Strategies |-> Pending]
    /\ mkt_type' = "BINARY"
    /\ proposed' = <<>>
    /\ bet_idx' = 1
    /\ placed' = <<>>
    /\ core_log' = <<[type |-> "ErrorEvent", source |-> "on_bet"]>>
    /\ UNCHANGED nonCoreVars

\* base_strategy.py:113-151: one strategy's task completes.
StrategyFinishes(s) ==
    /\ cpc = "gather"
    /\ results[s] = Pending
    /\ \E o \in StrategyOutcomes(s) : results' = [results EXCEPT ![s] = o]
    /\ UNCHANGED <<cpc, mkt_type, proposed, bet_idx, placed, core_log>>
    /\ UNCHANGED nonCoreVars

\* core.py:114 with core.py:41-48: gather is called without
\* return_exceptions, so the first exception of a strategy is raised out of
\* get_proposed_response_result and on_bet_impl into on_bet, which logs one
\* ErrorEvent and returns.
GatherRaises ==
    /\ cpc = "gather"
    /\ \E s \in Strategies : results[s].kind = "raise"
    /\ cpc' = "done"
    /\ core_log' = Append(core_log, [type |-> "ErrorEvent", source |-> "on_bet"])
    /\ UNCHANGED <<results, mkt_type, proposed, bet_idx, placed>>
    /\ UNCHANGED nonCoreVars

\* core.py:114, what the await of asyncio.gather returning takes: the result
\* of every task
gather_done_alt(rs) == \E s \in Strategies : rs[s].kind \in {"event", "bets"}

gather_done(rs) == \A s \in Strategies : rs[s].kind \in {"event", "bets"}

\* core.py:114-129 and 60-63: every task is done and none raised; the
\* results are reconciled. The list of results is local to
\* get_proposed_response_result and is gone when it returns.
GatherReturns ==
    /\ cpc = "gather"
    /\ gather_done(results)
    /\ LET r == get_proposed_response_result(GatherResults) IN
       IF r.raised
       THEN /\ cpc' = "done"
            /\ proposed' = <<>>
            /\ core_log' = Append(core_log,
                                  [type |-> "ErrorEvent", source |-> "on_bet"])
       ELSE /\ proposed' = r.bets
            /\ cpc' = IF r.bets = <<>> THEN "done" ELSE "submit"
            /\ core_log' = core_log
    /\ results' = [s \in Strategies |-> Pending]
    /\ UNCHANGED <<mkt_type, bet_idx, placed>>
    /\ UNCHANGED nonCoreVars

\* core.py:68, the test that makes the loop skip a proposed bet
skips_alt(outcome_type, b) == FALSE

skips(outcome_type, b) ==
    outcome_type = "MULTIPLE_CHOICE" /\ b.answer_id = "None"

\* core.py:78-86 with 41-48 as it would be if the loop went on after a
\* place_bet that raised
place_bet_raised_alt(idx, n) ==
    [bet_idx |-> idx + 1, cpc |-> IF idx = n THEN "done" ELSE "submit"]

\* core.py:78-86 with 41-48: place_bet raises out of the for loop and of
\* on_bet_impl; on_bet catches it and returns
place_bet_raised(idx, n) == [bet_idx |-> idx, cpc |-> "done"]

\* result_bet.amount: what the exchange reports as the amount of an order
\* of the given amount (a response without the field lets from_dict raise)
Fills(amount) == {0, amount}

\* core.py:87-101 as it would be with the proposed amount in the record
PlaceBetEventOf_alt(b, amount, filled, latency) ==
    [type |-> "PlaceBetEvent", source |-> "on_bet_impl",
     amount |-> b.amount, filled_amount |-> filled, outcome |-> b.outcome,
     contract_id |-> b.contract_id, limit_prob |-> b.limit_prob,
     answer_id |-> b.answer_id, ws_to_api_ms |-> latency,
     strategy |-> b.source_strategy]

\* core.py:87-101, the PlaceBetEvent of proposed bet b submitted with the
\* given amount; latency is ws_to_api_ms of core.py:76
PlaceBetEventOf(b, amount, filled, latency) ==
    [type |-> "PlaceBetEvent", source |-> "on_bet_impl",
     amount |-> amount, filled_amount |-> filled, outcome |-> b.outcome,
     contract_id |-> b.contract_id, limit_prob |-> b.limit_prob,
     answer_id |-> b.answer_id, ws_to_api_ms |-> latency,
     strategy |-> b.source_strategy]

\* core.py:65-102, one iteration of the for loop; place_bet either returns
\* or raises into on_bet (core.py:43-48). The handler's clock counts the
\* calls of place_bet awaited since the event came in, and ws_to_api_ms is
\* read off it before the call (core.py:76).
SubmitNext ==
    /\ cpc = "submit"
    /\ bet_idx <= Len(proposed)
    /\ LET b == proposed[bet_idx]
           amount == Max2(b.amount, 1)
           order == [contract_id |-> b.contract_id, answer_id |-> b.answer_id,
                     outcome |-> b.outcome, amount |-> amount,
                     limit_prob |-> b.limit_prob]
       IN
       IF skips(mkt_type, b)
       THEN /\ core_log' = Append(core_log,
                                  [type |-> "ErrorEvent", source |-> "on_bet_impl"])
            /\ placed' = placed
            /\ bet_idx' = bet_idx + 1
            /\ cpc' = IF bet_idx = Len(proposed) THEN "done" ELSE "submit"
       ELSE \E ok \in BOOLEAN, filled \in Fills(amount) :
            /\ placed' = Append(placed, order)
            /\ IF ok
               THEN /\ core_log' = Append(core_log,
                                          PlaceBetEventOf(b, amount, filled,
                                                          Len(placed)))
                    /\ bet_idx' = bet_idx + 1
                    /\ cpc' = IF bet_idx = Len(proposed) THEN "done" ELSE "submit"
               ELSE /\ core_log' = Append(core_log,
                                          [type |-> "ErrorEvent", source |-> "on_bet"])
                    /\ bet_idx' = place_bet_raised(bet_idx, Len(proposed)).bet_idx
                    /\ cpc' = place_bet_raised(bet_idx, Len(proposed)).cpc
    /\ UNCHANGED <<results, mkt_type, proposed>>
    /\ UNCHANGED nonCoreVars

\* on_bet has returned; listen() goes on to the next frame.
OnBetReturns ==
    /\ cpc = "done"
    /\ cpc' = "idle"
    /\ results' = [s \in Strategies |-> Pending]
    /\ mkt_type' = "BINARY"
    /\ proposed' = <<>>
    /\ bet_idx' = 1
    /\ placed' = <<>>
    /\ core_log' = <<>>
    /\ UNCHANGED nonCoreVars

NextCore ==
    \/ OnBet
    \/ OnBetFetchFails
    \/ \E s \in Strategies : StrategyFinishes(s)
    \/ GatherRaises
    \/ GatherReturns
    \/ SubmitNext
    \/ OnBetReturns


----------------------------------------------------------------------------
(* HTTP layer: ManifoldClient._make_request, src/src/manifold_client.py *)

\* the tasks that call _make_request
Tasks == {"T1", "T2"}

\* the clock stops here
MaxTime == 3
\* _make_request calls started in one behaviour
MaxRequests == 2

\* self.cache_ttl (APIConfig.CACHE_TTL) and the override of
\* APIConfig.ENDPOINT_CACHE_TTLS, in clock ticks
CacheTtl == 2
PortfolioTtl == 3

max_retries == 3
retry_delay == 2

\* params is None, or a dict given by its keys in insertion order
NoParams == [is_none |-> TRUE, items |-> <<>>]
Dict(items) == [is_none |-> FALSE, items |-> items]

\* The calls the tasks make: endpoint, params, is_get.
RequestInputs ==
    {[endpoint |-> "market/m1", params |-> NoParams, is_get |-> TRUE],
     [endpoint |-> "market/m1", params |-> Dict(<<>>), is_get |-> TRUE],
     [endpoint |-> "get-user-portfolio-history",
      params |-> Dict(<<"userId", "period">>), is_get |-> TRUE],
     [endpoint |-> "get-user-portfolio-history",
      params |-> Dict(<<"period", "userId">>), is_get |-> TRUE],
     [endpoint |-> "bet", params |-> Dict(<<"amount", "contractId">>),
      is_get |-> FALSE]}

\* manifold_client.py:128 (and :85): cache_ttl_overrides.get(endpoint, cache_ttl)
effective_ttl(endpoint) ==
    IF endpoint = "get-user-portfolio-history" THEN PortfolioTtl ELSE CacheTtl

\* json.dumps(..., sort_keys=True): the keys in sorted order. The dicts of
\* RequestInputs have at most two keys.
sort_keys(items) ==
    IF Len(items) = 2 /\ items[1] = "userId" THEN <<items[2], items[1]>>
    ELSE items

\* manifold_client.py:131: json.dumps(params, sort_keys=True) if params else ""
key_data(params) ==
    IF params.is_none \/ params.items = <<>> THEN <<>>
    ELSE sort_keys(params.items)

\* manifold_client.py:132
cache_key(endpoint, params) == <<endpoint, key_data(params)>>

Keys == {cache_key(i.endpoint, i.params) : i \in {j \in RequestInputs : j.is_get}}

\* manifold_client.py:84: the endpoint of a cache key
key_endpoint(k) == k[1]

\* A response body: the server's version of the data, and whether its *Time
\* fields are still the raw numbers of the wire or have been converted in
\* place (BaseModel._convert_timestamps).
NoData == [ver |-> 0, form |-> "none"]
NoEntry == [present |-> FALSE, ts |-> 0, data |-> NoData]
NoRead == [valid |-> FALSE, start |-> 0, calls |-> 0, data |-> NoData]

IdleReq ==
    [pc |-> "idle", input |-> CHOOSE i \in RequestInputs : ~i.is_get,
     key |-> <<>>, attempt |-> 0, calls |-> 0, sleeps |-> 0, start |-> 0,
     stale |-> FALSE, prev |-> NoRead, ret |-> NoData, ret0 |-> NoData,
     alias |-> FALSE, err |-> "none", waited |-> 0, reported |-> 0,
     raised |-> "none"]

\* manifold_client.py:85-86 with the default TTL for every endpoint
expired_alt(k, e, t) == CacheTtl <= 0 \/ t - e.ts >= CacheTtl

\* manifold_client.py:86, the test of _cleanup_cache
expired(k, e, t) ==
    LET ttl == effective_ttl(key_endpoint(k)) IN ttl <= 0 \/ t - e.ts >= ttl

\* manifold_client.py:77-89
cleanup_cache(c, t) ==
    [k \in Keys |-> IF c[k].present /\ expired(k, c[k], t) THEN NoEntry ELSE c[k]]

\* manifold_client.py:134, a hit young enough to be served
fresh(e, ttl, t) == e.present /\ t - e.ts < ttl

\* The keys whose entry object is no longer the one in c2: a task holding
\* that object no longer shares it with the cache.
Dropped(c1, c2) == {k \in Keys : c1[k].present /\ c2[k] # c1[k]}

Unshare(rq, ks) ==
    [t \in Tasks |-> IF rq[t].alias /\ rq[t].key \in ks
                     THEN [rq[t] EXCEPT !.alias = FALSE] ELSE rq[t]]

InitHttp ==
    /\ now = 0
    /\ cache = [k \in Keys |-> NoEntry]
    /\ srv_ver = 1
    /\ req = [t \in Tasks |-> IdleReq]
    /\ last_read = [k \in Keys |-> NoRead]
    /\ nreq = 0

\* time passes
Tick ==
    /\ now < MaxTime
    /\ now' = now + 1
    /\ UNCHANGED <<cache, srv_ver, req, last_read, nreq>>
    /\ UNCHANGED nonHttpVars

\* the data behind the API changes
ServerChanges ==
    /\ srv_ver = 1
    /\ srv_ver' = 2
    /\ UNCHANGED <<now, cache, req, last_read, nreq>>
    /\ UNCHANGED nonHttpVars

\* manifold_client.py:125-147: _make_request up to its first await. A GET
\* with ttl > 0 sweeps the cache and looks its key up: a fresh hit returns a
\* deep copy; otherwise an entry found is deleted and the first attempt is
\* sent. Everything else sends the first attempt at once.
MakeRequest(t, i) ==
    /\ req[t].pc = "idle"
    /\ nreq < MaxRequests
    /\ nreq' = nreq + 1
    /\ LET ttl == effective_ttl(i.endpoint)
           k == cache_key(i.endpoint, i.params)
           base == [IdleReq EXCEPT !.input = i, !.start = now]
       IN
       IF i.is_get /\ ttl > 0
       THEN LET swept == cleanup_cache(cache, now)
                cached == swept[k]
                r0 == [base EXCEPT !.key = k, !.prev = last_read[k],
                                   !.stale = cache[k].present
                                             /\ now - cache[k].ts >= ttl]
            IN
            IF fresh(cached, ttl, now)
            THEN /\ cache' = swept
                 /\ req' = [Unshare(req, Dropped(cache, swept)) EXCEPT
                               ![t] = [r0 EXCEPT !.pc = "returned",
                                                 !.ret = cached.data,
                                                 !.ret0 = cached.data]]
                 /\ last_read' = [last_read EXCEPT
                                     ![k] = [valid |-> TRUE, start |-> now,
                                             calls |-> 0, data |-> cached.data]]
            ELSE LET c2 == [swept EXCEPT ![k] = NoEntry] IN
                 /\ cache' = c2
                 /\ req' = [Unshare(req, Dropped(cache, c2)) EXCEPT
                               ![t] = [r0 EXCEPT !.pc = "inflight",
                                                 !.calls = 1]]
                 /\ last_read' = last_read
       ELSE /\ req' = [req EXCEPT ![t] = [base EXCEPT !.pc = "inflight",
                                                      !.calls = 1]]
            /\ UNCHANGED <<cache, last_read>>
    /\ UNCHANGED <<now, srv_ver>>
    /\ UNCHANGED nonHttpVars

\* manifold_client.py:141-154: the response arrives with a status below 400.
\* A GET with a cache key stores the response object itself and returns it.
ResponseOk(t) ==
    /\ req[t].pc = "inflight"
    /\ LET r == req[t]
           data == [ver |-> srv_ver, form |-> "raw"]
           store == r.input.is_get /\ r.key # <<>>
                    /\ effective_ttl(r.input.endpoint) > 0
           done == [r EXCEPT !.pc = "returned", !.ret = data, !.ret0 = data,
                             !.alias = store]
       IN
       IF store
       THEN /\ cache' = [cache EXCEPT ![r.key] =
                            [present |-> TRUE, ts |-> now, data |-> data]]
            /\ req' = [Unshare(req, {r.key}) EXCEPT ![t] = done]
            /\ last_read' = [last_read EXCEPT
                                ![r.key] = [valid |-> TRUE, start |-> r.start,
                                            calls |-> r.calls, data |-> data]]
       ELSE /\ req' = [req EXCEPT ![t] = done]
            /\ UNCHANGED <<cache, last_read>>
    /\ UNCHANGED <<now, srv_ver, nreq>>
    /\ UNCHANGED nonHttpVars

\* manifold_client.py:156, the test for the last attempt of the loop
last_attempt_alt(attempt) == attempt = max_retries

last_attempt(attempt) == attempt = max_retries - 1

\* manifold_client.py:155, the exceptions the except clause of the loop
\* catches
caught_by_retry_alt(exc) == exc \in {"ClientError", "Exception"}

caught_by_retry(exc) == exc = "ClientError"

\* manifold_client.py:139-158: an exception of class exc is raised inside
\* the try of call r. One that the except clause catches ends the call when
\* the attempt was the last and otherwise sleeps retry_delay before the
\* next attempt; any other leaves _make_request at once.
Raised(r, exc) ==
    IF caught_by_retry(exc)
    THEN IF last_attempt(r.attempt)
         THEN [r EXCEPT !.pc = "failed", !.err = "retries_exhausted",
                        !.reported = max_retries, !.raised = exc]
         ELSE [r EXCEPT !.pc = "sleep", !.sleeps = @ + 1,
                        !.waited = @ + retry_delay, !.raised = exc]
    ELSE [r EXCEPT !.pc = "failed", !.err = "api_error", !.raised = exc]

\* manifold_client.py:142-144 and 148-150: status >= 400 raises a plain
\* Exception, which the except ClientError clause does not catch.
ResponseApiError(t) ==
    /\ req[t].pc = "inflight"
    /\ req' = [req EXCEPT ![t] = Raised(@, "Exception")]
    /\ UNCHANGED <<now, cache, srv_ver, last_read, nreq>>
    /\ UNCHANGED nonHttpVars

\* manifold_client.py:155-158: the attempt fails with a ClientError; the
\* last attempt raises, any other one sleeps retry_delay. GET and POST alike.
ResponseClientError(t) ==
    /\ req[t].pc = "inflight"
    /\ req' = [req EXCEPT ![t] = Raised(@, "ClientError")]
    /\ UNCHANGED <<now, cache, srv_ver, last_read, nreq>>
    /\ UNCHANGED nonHttpVars

\* manifold_client.py:138-147: the sleep is over, the next attempt is sent.
Retry(t) ==
    /\ req[t].pc = "sleep"
    /\ req' = [req EXCEPT ![t] = [@ EXCEPT !.pc = "inflight",
                                           !.attempt = @ + 1,
                                           !.calls = @ + 1]]
    /\ UNCHANGED <<now, cache, srv_ver, last_read, nreq>>
    /\ UNCHANGED nonHttpVars

\* base_model.py:15-30: the caller builds a model from the response with
\* from_dict, which converts the *Time fields of the dict it is given in
\* place. When that dict is the object the cache holds, the cache entry
\* changes with it.
FromDict(t) ==
    /\ req[t].pc = "returned"
    /\ req[t].ret.form = "raw"
    /\ req' = [req EXCEPT ![t] = [@ EXCEPT !.ret.form = "converted"]]
    /\ cache' = IF req[t].alias
                THEN [cache EXCEPT ![req[t].key].data.form = "converted"]
                ELSE cache
    /\ UNCHANGED <<now, srv_ver, last_read, nreq>>
    /\ UNCHANGED nonHttpVars

\* the caller is done with the response (or the exception)
CallEnds(t) ==
    /\ req[t].pc \in {"returned", "failed"}
    /\ req' = [req EXCEPT ![t] = IdleReq]
    /\ UNCHANGED <<now, cache, srv_ver, last_read, nreq>>
    /\ UNCHANGED nonHttpVars

HttpStep(t) ==
    \/ \E i \in RequestInputs : MakeRequest(t, i)
    \/ ResponseOk(t)
    \/ ResponseApiError(t)
    \/ ResponseClientError(t)
    \/ Retry(t)
    \/ FromDict(t)
    \/ CallEnds(t)

\* every task calls
NextHttp ==
    \/ Tick
    \/ ServerChanges
    \/ \E t \in Tasks : HttpStep(t)

\* one task calls: its reads are sequential
NextHttpSeq ==
    \/ Tick
    \/ ServerChanges
    \/ HttpStep("T1")

----------------------------------------------------------------------------
(* WebSocket session: ManifoldClient, src/src/manifold_client.py:426-668.  *)
(* One step of a task runs its code from one await that suspends it to the *)
(* next: the await of a cancelled keep-alive task that was still running,  *)
(* of ws.close(), of websockets.connect(), of asyncio.sleep() and of       *)
(* ws.recv(). The session's fields are gathered in a record g, on which    *)
(* the code between two awaits is a function.                              *)

\* sockets websockets.connect can open in one behaviour
MaxSockets == 2
\* calls the calling tasks make in one behaviour
MaxOps == 1
\* frames the client sends in one behaviour
MaxTxid == 2

max_reconnect_attempts == 10
reconnect_delay == 5
max_reconnect_delay == 600

Callers == {"A", "B"}
Threads == Callers \cup {"listen"}
Socks == 1..MaxSockets
Topics == {"t1", "t2"}
\* the topics argument of subscribe()
TopicLists == {<<"t1">>, <<"t2">>}

Pow2(n) == 2 ^ n

Session ==
    [ws |-> ws, connected |-> connected, is_reconnecting |-> is_reconnecting,
     ping_task |-> ping_task, ping |-> ping, open_socks |-> open_socks,
     nsock |-> nsock, txid |-> txid, subscriptions |-> subscriptions,
     sub_log |-> sub_log, ws_log |-> ws_log, delays |-> delays]

SetSession(g) ==
    /\ ws' = g.ws
    /\ connected' = g.connected
    /\ is_reconnecting' = g.is_reconnecting
    /\ ping_task' = g.ping_task
    /\ ping' = g.ping
    /\ open_socks' = g.open_socks
    /\ nsock' = g.nsock
    /\ txid' = g.txid
    /\ subscriptions' = g.subscriptions
    /\ sub_log' = g.sub_log
    /\ ws_log' = g.ws_log
    /\ delays' = g.delays

IdleThread == [pc |-> "idle", attempt |-> 0, rsock |-> 0, in_loop |-> FALSE]

InitWs ==
    /\ ws = 0
    /\ connected = FALSE
    /\ is_reconnecting = FALSE
    /\ ping_task = 0
    /\ ping = [s \in Socks |-> "none"]
    /\ open_socks = {}
    /\ nsock = 0
    /\ txid = 0
    /\ subscriptions = [tp \in Topics |-> <<>>]
    /\ sub_log = [s \in Socks |-> <<>>]
    /\ ws_log = {}
    /\ delays = <<>>
    /\ th = [t \in Threads |-> IdleThread]
    /\ nops = 0
    /\ shut = FALSE

\* logger.log(ErrorEvent(...)); the APIEvents are left out
Log(g, tag) == [g EXCEPT !.ws_log = @ \cup {tag}]

\* task.cancel() of a keep-alive task: it never runs again
CancelPing(g) == [g EXCEPT !.ping[g.ping_task] = "ended"]

\* ws.close(): the connection is closed
CloseWs(g) == [g EXCEPT !.open_socks = @ \ {g.ws}]

\* the topics that have callbacks: self.subscriptions.keys()
SubscribedTopics(g) == {tp \in Topics : g.subscriptions[tp] # <<>>}

\* ---- connect(), manifold_client.py:426-468 ----
\* Each part ends at an await that suspends (st names it) or with the call
\* having returned or raised.

\* 447-452: up to the await of websockets.connect
ConnectOpen(g) ==
    [g |-> [g EXCEPT !.ws = 0, !.connected = FALSE], st |-> "c_handshake"]

\* 442-446
ConnectCloseWs(g) ==
    IF g.ws # 0
    THEN [g |-> CloseWs(g), st |-> "c_close_wait"]
    ELSE ConnectOpen(g)

\* 440
ConnectAfterCancel(g) == ConnectCloseWs([g EXCEPT !.ping_task = 0])

\* 428-431, the guard of connect
connect_skips(g, is_reconnect) == ~is_reconnect /\ g.is_reconnecting

\* 428-439
ConnectBegin(g, is_reconnect) ==
    IF connect_skips(g, is_reconnect)
    THEN [g |-> g, st |-> "returned"]
    ELSE IF g.ping_task # 0
         THEN IF g.ping[g.ping_task] = "alive"
              THEN [g |-> CancelPing(g), st |-> "c_cancel_wait"]
              ELSE ConnectAfterCancel(g)
         ELSE ConnectCloseWs(g)

\* 459-462, the topics connect subscribes to again on the new socket
replay_topics_alt(g) == {}

replay_topics(g) == SubscribedTopics(g)

\* 638-649: _send_subscribe on an open socket
SendSubscribe(g, topics) ==
    [g EXCEPT !.txid = @ + 1,
              !.sub_log[g.ws] = Append(@, topics)]

\* 452-462: websockets.connect returned socket s
ConnectOk(g, s) ==
    LET g1 == [g EXCEPT !.nsock = s, !.open_socks = @ \cup {s}, !.ws = s,
                        !.connected = TRUE, !.ping[s] = "alive",
                        !.ping_task = s]
    IN [g |-> IF replay_topics(g1) # {}
              THEN SendSubscribe(g1, replay_topics(g1)) ELSE g1,
        st |-> "returned"]

\* 464-468: websockets.connect raised
ConnectFail(g) ==
    [g |-> Log([g EXCEPT !.connected = FALSE], "connect_failed"),
     st |-> "raised"]

\* ---- disconnect(), manifold_client.py:470-493 ----

\* 491-493
DisconnectEnd(g) ==
    [g |-> [g EXCEPT !.ws = 0], st |-> "returned"]

\* 485-490
DisconnectCloseWs(g) ==
    IF g.ws # 0
    THEN [g |-> CloseWs(g), st |-> "d_close_wait"]
    ELSE DisconnectEnd(g)

\* 483
DisconnectAfterCancel(g) == DisconnectCloseWs([g EXCEPT !.ping_task = 0])

\* 472-482
DisconnectBegin(g) ==
    LET g1 == [g EXCEPT !.is_reconnecting = FALSE, !.connected = FALSE] IN
    IF g1.ping_task # 0
    THEN IF g1.ping[g1.ping_task] = "alive"
         THEN [g |-> CancelPing(g1), st |-> "d_cancel_wait"]
         ELSE DisconnectAfterCancel(g1)
    ELSE DisconnectCloseWs(g1)

\* ---- subscribe(), manifold_client.py:624-649 ----

\* 634, whether subscribe sends the new topics at once
subscribe_sends(g) == g.connected

\* 629-632
Register(g, topics, cb) ==
    [g EXCEPT !.subscriptions =
        [tp \in Topics |-> IF tp \in Range(topics) THEN Append(@[tp], cb)
                           ELSE @[tp]]]

\* 624-649: _send_subscribe raises when ws is None, and ws.send raises when
\* the connection is closed; self.txid has been incremented by then.
Subscribe(g, topics, cb) ==
    LET g1 == Register(g, topics, cb) IN
    IF subscribe_sends(g1)
    THEN IF g1.ws = 0
         THEN [g |-> g1, st |-> "raised"]
         ELSE IF g1.ws \in g1.open_socks
              THEN [g |-> SendSubscribe(g1, Range(topics)), st |-> "returned"]
              ELSE [g |-> [g1 EXCEPT !.txid = @ + 1], st |-> "raised"]
    ELSE [g |-> g1, st |-> "returned"]

\* ---- listen() and _reconnect(), manifold_client.py:522-622 ----
\* l is the state of the task that runs listen().

\* 552, the delay before attempt k
backoff_delay_alt(k) == reconnect_delay * Pow2(k - 1)

backoff_delay(k) ==
    Min2(reconnect_delay * Pow2(k - 1), max_reconnect_delay)

\* 550, whether _reconnect makes another attempt
reconnect_continues_alt(g, l) == ~g.connected

reconnect_continues(g, l) ==
    l.attempt < max_reconnect_attempts /\ ~g.connected

RECURSIVE ListenTop(_, _), ListenRecv(_, _), ListenAfterReconnect(_, _),
          Reconnect(_, _)

\* 585-586 and 620-622: ws.recv() is awaited; with ws None the call raises,
\* the handler clears connected and the loop goes round.
ListenRecv(g, l) ==
    IF g.ws = 0
    THEN ListenTop(Log([g EXCEPT !.connected = FALSE], "listen_error"), l)
    ELSE [g |-> g, l |-> [l EXCEPT !.pc = "recv", !.rsock = g.ws]]

\* 573-575 and 581-583: _reconnect has returned
ListenAfterReconnect(g, l) ==
    IF ~g.connected
    THEN [g |-> Log(g, "listen_stopped"), l |-> [l EXCEPT !.pc = "done"]]
    ELSE IF l.in_loop THEN ListenRecv(g, l)
         ELSE ListenTop(g, [l EXCEPT !.in_loop = TRUE])

\* 550-554 and 564-566: the head of the while loop of _reconnect, and what
\* follows the loop
ReconnectLoop(g, l) ==
    IF reconnect_continues(g, l)
    THEN LET k == l.attempt + 1 IN
         [g |-> [g EXCEPT !.delays = Append(@, backoff_delay(k))],
          l |-> [l EXCEPT !.attempt = k, !.pc = "r_sleep"]]
    ELSE ListenAfterReconnect(
            [(IF ~g.connected THEN Log(g, "reconnect_exhausted") ELSE g)
                EXCEPT !.is_reconnecting = FALSE], l)

\* 545-549
ReconnectStart(g, l) ==
    ReconnectLoop([g EXCEPT !.ws = 0, !.delays = <<>>],
                  [l EXCEPT !.attempt = 0])

\* 540-544
ReconnectCloseWs(g, l) ==
    IF g.ws # 0
    THEN [g |-> CloseWs(g), l |-> [l EXCEPT !.pc = "r_close_wait"]]
    ELSE ReconnectStart(g, l)

\* 538
ReconnectAfterCancel(g, l) == ReconnectCloseWs([g EXCEPT !.ping_task = 0], l)

\* 522-537
Reconnect(g, l) ==
    IF g.is_reconnecting
    THEN ListenAfterReconnect(g, l)
    ELSE LET g1 == [g EXCEPT !.is_reconnecting = TRUE, !.connected = FALSE] IN
         IF g1.ping_task # 0
         THEN IF g1.ping[g1.ping_task] = "alive"
              THEN [g |-> CancelPing(g1), l |-> [l EXCEPT !.pc = "r_cancel_wait"]]
              ELSE ReconnectAfterCancel(g1, l)
         ELSE ReconnectCloseWs(g1, l)

\* 577-580
ListenTop(g, l) ==
    IF ~g.connected \/ g.ws = 0
    THEN Reconnect(g, l)
    ELSE ListenRecv(g, l)

\* 570-577
ListenStart(g, l) ==
    IF ~g.connected
    THEN Reconnect(g, l)
    ELSE ListenTop(g, [l EXCEPT !.in_loop = TRUE])

\* 555-562: connect(is_reconnect=True) has returned or raised, or is
\* suspended at st
ReconnectAfterConnect(r, l) ==
    IF r.st \in {"c_cancel_wait", "c_close_wait", "c_handshake"}
    THEN [g |-> r.g, l |-> [l EXCEPT !.pc = r.st]]
    ELSE IF r.st = "returned" /\ r.g.connected
         THEN ListenAfterReconnect([r.g EXCEPT !.is_reconnecting = FALSE], l)
         ELSE ReconnectLoop(IF r.st = "raised"
                            THEN Log(r.g, "reconnect_attempt_failed")
                            ELSE r.g, l)

\* ---- the steps ----

\* a step of the listen task ending in session g and task state l
ListenGoes(r) ==
    /\ r.g.txid <= MaxTxid
    /\ SetSession(r.g)
    /\ th' = [th EXCEPT !["listen"] = r.l]
    /\ UNCHANGED nops
    /\ shut' = (shut /\ th["listen"].pc # "idle")
    /\ UNCHANGED nonWsVars

\* a step of calling task c in a call that is suspended at, or has left
\* with, r.st
CallerGoes(c, r) ==
    /\ r.g.txid <= MaxTxid
    /\ SetSession(r.g)
    /\ th' = [th EXCEPT ![c] =
                 IF r.st \in {"returned", "raised"} THEN IdleThread
                 ELSE [IdleThread EXCEPT !.pc = r.st]]
    /\ UNCHANGED nonWsVars

\* a task calls connect()
CallConnect(c) ==
    /\ th[c].pc = "idle"
    /\ nops < MaxOps
    /\ nops' = nops + 1
    /\ shut' = FALSE
    /\ CallerGoes(c, ConnectBegin(Session, FALSE))

\* a task calls disconnect()
CallDisconnect(c) ==
    /\ th[c].pc = "idle"
    /\ nops < MaxOps
    /\ nops' = nops + 1
    /\ shut' = (shut \/ DisconnectBegin(Session).st = "returned")
    /\ CallerGoes(c, DisconnectBegin(Session))

\* a task calls subscribe(topics, callback)
CallSubscribe(c) ==
    /\ th[c].pc = "idle"
    /\ nops < MaxOps
    /\ nops' = nops + 1
    /\ UNCHANGED shut
    /\ \E topics \in TopicLists : CallerGoes(c, Subscribe(Session, topics, c))

\* a task calls listen()
CallListen ==
    /\ th["listen"].pc = "idle"
    /\ ListenGoes(ListenStart(Session, th["listen"]))

\* the await of the cancelled keep-alive task, or of ws.close(), is over
CallerResumes(c) ==
    /\ th[c].pc \in {"c_cancel_wait", "c_close_wait", "d_cancel_wait",
                     "d_close_wait"}
    /\ UNCHANGED nops
    /\ shut' = (shut \/ th[c].pc = "d_close_wait"
                     \/ (th[c].pc = "d_cancel_wait"
                         /\ DisconnectAfterCancel(Session).st = "returned"))
    /\ CallerGoes(c, CASE th[c].pc = "c_cancel_wait" -> ConnectAfterCancel(Session)
                       [] th[c].pc = "c_close_wait" -> ConnectOpen(Session)
                       [] th[c].pc = "d_cancel_wait" -> DisconnectAfterCancel(Session)
                       [] th[c].pc = "d_close_wait" -> DisconnectEnd(Session))

\* websockets.connect returns a new socket to a calling task
CallerConnectOk(c) ==
    /\ th[c].pc = "c_handshake"
    /\ nsock < MaxSockets
    /\ UNCHANGED <<nops, shut>>
    /\ CallerGoes(c, ConnectOk(Session, nsock + 1))

\* websockets.connect raises in a calling task
CallerConnectFails(c) ==
    /\ th[c].pc = "c_handshake"
    /\ UNCHANGED <<nops, shut>>
    /\ CallerGoes(c, ConnectFail(Session))

\* the listen task resumes inside _reconnect, or inside the connect it called
ListenResumes ==
    LET l == th["listen"] IN
    /\ l.pc \in {"r_cancel_wait", "r_close_wait", "r_sleep", "c_cancel_wait",
                 "c_close_wait"}
    /\ ListenGoes(
          CASE l.pc = "r_cancel_wait" -> ReconnectAfterCancel(Session, l)
            [] l.pc = "r_close_wait" -> ReconnectStart(Session, l)
            [] l.pc = "r_sleep" ->
                  ReconnectAfterConnect(ConnectBegin(Session, TRUE), l)
            [] l.pc = "c_cancel_wait" ->
                  ReconnectAfterConnect(ConnectAfterCancel(Session), l)
            [] l.pc = "c_close_wait" ->
                  ReconnectAfterConnect(ConnectOpen(Session), l))

\* websockets.connect returns a new socket to the reconnect attempt
ListenConnectOk ==
    /\ th["listen"].pc = "c_handshake"
    /\ nsock < MaxSockets
    /\ ListenGoes(ReconnectAfterConnect(ConnectOk(Session, nsock + 1),
                                        th["listen"]))

\* websockets.connect raises in the reconnect attempt
ListenConnectFails ==
    /\ th["listen"].pc = "c_handshake"
    /\ ListenGoes(ReconnectAfterConnect(ConnectFail(Session), th["listen"]))

\* 586-615: recv returns a frame (an ack, or a broadcast that is dispatched)
\* and the loop goes round
RecvFrame ==
    /\ th["listen"].pc = "recv"
    /\ th["listen"].rsock \in open_socks
    /\ ListenGoes(ListenTop(Session, th["listen"]))

\* 617-622: recv raises because the connection is closed
RecvClosed ==
    /\ th["listen"].pc = "recv"
    /\ th["listen"].rsock \notin open_socks
    /\ ListenGoes(ListenTop(Log([Session EXCEPT !.connected = FALSE],
                                 "listen_connection_closed"), th["listen"]))

\* 495-520: one round of a keep-alive task. The loop ends when the session
\* is not connected; a ping that cannot be sent clears connected and ends
\* the task; self.txid is incremented before the send.
PingRound(p) ==
    /\ ping[p] = "alive"
    /\ LET g == Session IN
       IF g.connected /\ g.ws # 0
       THEN /\ txid < MaxTxid
            /\ IF g.ws \in g.open_socks
               THEN SetSession([g EXCEPT !.txid = @ + 1])
               ELSE SetSession(Log([g EXCEPT !.txid = @ + 1,
                                             !.connected = FALSE,
                                             !.ping[p] = "failed"],
                                   "ping_failed"))
       ELSE SetSession([g EXCEPT !.ping[p] = "ended"])
    /\ UNCHANGED <<th, nops, shut>>
    /\ UNCHANGED nonWsVars

\* the peer or the network closes a connection
ConnectionLost(s) ==
    /\ s \in open_socks
    /\ open_socks' = open_socks \ {s}
    /\ UNCHANGED <<ws, connected, is_reconnecting, ping_task, ping, nsock, txid,
                   subscriptions, sub_log, ws_log, delays, th, nops, shut>>
    /\ UNCHANGED nonWsVars

NextWs ==
    \/ \E c \in Callers : CallConnect(c)
    \/ \E c \in Callers : CallDisconnect(c)
    \/ \E c \in Callers : CallSubscribe(c)
    \/ \E c \in Callers : CallerResumes(c)
    \/ \E c \in Callers : CallerConnectOk(c)
    \/ \E c \in Callers : CallerConnectFails(c)
    \/ CallListen
    \/ ListenResumes
    \/ ListenConnectOk
    \/ ListenConnectFails
    \/ RecvFrame
    \/ RecvClosed
    \/ \E p \in Socks : PingRound(p)
    \/ \E s \in Socks : ConnectionLost(s)

----------------------------------------------------------------------------
(* One strategy evaluation: BaseTradingStrategy.evaluate_and_propose and    *)
(* _run_qualifiers, src/src/strategies/base_strategy.py:66-151.             *)

\* BaseTradingStrategy.BASE_QUALIFIERS, base_strategy.py:27-35
BASE_QUALIFIERS ==
    <<"MarketTypeQualifier", "NoBetsOnOwnMarketsQualifier", "NoBotsQualifier",
      "NoSellsQualifier", "CreatorIsBettorQualifier", "OptOutQualifier",
      "LiquidityProvisionQualifier">>

\* the floor of the strategy's MarketLiquidityQualifier
min_liquidity == 100

\* market.total_liquidity
Liquidities == {10, 100}

\* The strategy classes: HousekeepingStrategy, which sets both of its lists
\* to [] (housekeeping_strategy.py:15-18), and a subclass that keeps the base
\* list and has the qualifiers MarketLiquidityQualifier(min_liquidity) and
\* OverinvestedQualifier of its own (base_strategy.py:42-55).
StrategyClasses == {"HousekeepingStrategy", "SubclassStrategy"}

\* self.base_qualifiers, base_strategy.py:37-40
base_qualifiers(c) ==
    IF c = "HousekeepingStrategy" THEN <<>> ELSE BASE_QUALIFIERS

\* self.qualifiers, base_strategy.py:42-55
qualifiers(c) ==
    IF c = "HousekeepingStrategy"
    THEN <<>>
    ELSE <<"MarketLiquidityQualifier", "OverinvestedQualifier">>

\* base_strategy.py:79, the qualifiers _run_qualifiers goes through
chain_alt(c) == qualifiers(c) \o base_qualifiers(c)

chain(c) == base_qualifiers(c) \o qualifiers(c)

\* the reason of each qualifier's FAIL (qualifiers.py); for the liquidity
\* qualifier the one of a BINARY market
FailReason(q) ==
    CASE q = "MarketTypeQualifier" -> "UNSUPPORTED_MARKET_TYPE"
      [] q = "NoBetsOnOwnMarketsQualifier" -> "SELF_CREATED_MARKET"
      [] q = "NoBotsQualifier" -> "API_BET"
      [] q = "NoSellsQualifier" -> "SKIPPING_SELL_BET"
      [] q = "CreatorIsBettorQualifier" -> "MARKET_CREATOR_IS_BETTOR"
      [] q = "OptOutQualifier" -> "MARKET_OPTED_OUT"
      [] q = "LiquidityProvisionQualifier" -> "LIQUIDITY_PROVISION"
      [] q = "MarketLiquidityQualifier" -> "LOW_LIQUIDITY"
      [] q = "OverinvestedQualifier" -> "MAX_POSITION_EXCEEDED"

\* qualifiers.py:127-137: MarketLiquidityQualifier.qualify on a BINARY market
liquidity_decision(total_liquidity) ==
    IF total_liquidity < min_liquidity THEN "FAIL" ELSE "PASS"

\* qualifier_instance.qualify(bet, market, ...) for input inp: the decision,
\* or "RAISE" when the call raises (OverinvestedQualifier awaits two calls
\* of the client, qualifiers.py:254-265)
Decision(q, inp) ==
    CASE q = "MarketLiquidityQualifier" ->
             liquidity_decision(inp.total_liquidity)
      [] q = "OverinvestedQualifier" -> inp.overinvested
      [] OTHER -> inp.base[q]

\* The inputs of one evaluation: whether triggering bets and a market are
\* given, what each base qualifier decides on them, the market's liquidity,
\* what the position check comes to and what propose_bet comes back with.
EvalInputs ==
    [given : BOOLEAN,
     base : [Range(BASE_QUALIFIERS) -> {"PASS", "FAIL"}],
     total_liquidity : Liquidities,
     overinvested : {"PASS", "FAIL", "RAISE"},
     proposal : {"bets", "no_bets", "event", "raise"}]

NoEvalInput ==
    [given |-> FALSE, base |-> [q \in Range(BASE_QUALIFIERS) |-> "PASS"],
     total_liquidity |-> 100, overinvested |-> "PASS",
     proposal |-> "no_bets"]
NoResult == [kind |-> "none"]

InitStrat ==
    /\ epc = "idle"
    /\ estrat = "HousekeepingStrategy"
    /\ einput = NoEvalInput
    /\ q_idx = 1
    /\ q_invoked = <<>>
    /\ fail_result = NoResult
    /\ propose_calls = 0
    /\ eresult = NoResult

\* base_strategy.py:79-90 and 131-133: the chain is at index i; past its end
\* _run_qualifiers returns None and propose_bet is called.
AfterQualifier(c, i) ==
    IF i > Len(chain(c))
    THEN /\ epc' = "propose"
         /\ fail_result' = [kind |-> "None"]
         /\ propose_calls' = propose_calls + 1
    ELSE /\ epc' = "qualify"
         /\ UNCHANGED <<fail_result, propose_calls>>

\* base_strategy.py:113-131: evaluate_and_propose is called.
EvaluateAndPropose(c) ==
    /\ epc = "idle"
    /\ \E inp \in EvalInputs :
          /\ estrat' = c
          /\ einput' = inp
          /\ q_idx' = 1
          /\ q_invoked' = <<>>
          /\ IF ~inp.given
             THEN /\ epc' = "returned"
                  /\ eresult' = [kind |-> "None"]
                  /\ fail_result' = NoResult
                  /\ propose_calls' = 0
             ELSE /\ eresult' = NoResult
                  /\ IF chain(c) = <<>>
                     THEN /\ epc' = "propose"
                          /\ fail_result' = [kind |-> "None"]
                          /\ propose_calls' = 1
                     ELSE /\ epc' = "qualify"
                          /\ fail_result' = NoResult
                          /\ propose_calls' = 0
    /\ UNCHANGED nonStratVars

\* base_strategy.py:132, the test of what _run_qualifiers returned
qualification_failed_alt(fr) == FALSE

qualification_failed(fr) == fr.kind = "FAIL"

\* base_strategy.py:79-90 and 131-141: the next qualifier's qualify is
\* awaited. A FAIL is returned by _run_qualifiers and made into the
\* QualificationFailEvent of the strategy result.
QualifyNext ==
    /\ epc = "qualify"
    /\ LET q == chain(estrat)[q_idx]
           d == Decision(q, einput)
       IN
       /\ q_invoked' = Append(q_invoked, q)
       /\ CASE d = "FAIL" ->
                 LET fr == [kind |-> "FAIL", reason |-> FailReason(q),
                            qualifier |-> q]
                 IN
                 /\ fail_result' = fr
                 /\ IF qualification_failed(fr)
                    THEN /\ eresult' = [kind |-> "event",
                                        event |-> "QualificationFailEvent",
                                        fail_reason |-> fr.reason,
                                        event_strategy |-> estrat,
                                        bets |-> <<>>, strategy |-> "None"]
                         /\ epc' = "returned"
                         /\ UNCHANGED propose_calls
                    ELSE /\ epc' = "propose"
                         /\ propose_calls' = propose_calls + 1
                         /\ UNCHANGED eresult
                 /\ UNCHANGED q_idx
            [] d = "RAISE" ->
                 /\ epc' = "raised"
                 /\ UNCHANGED <<q_idx, fail_result, propose_calls, eresult>>
            [] d = "PASS" ->
                 /\ q_idx' = q_idx + 1
                 /\ AfterQualifier(estrat, q_idx + 1)
                 /\ UNCHANGED eresult
    /\ UNCHANGED <<estrat, einput>>
    /\ UNCHANGED nonStratVars

\* base_strategy.py:143-151: propose_bet returns or raises.
ProposeReturns ==
    /\ epc = "propose"
    /\ CASE einput.proposal = "raise" ->
                 epc' = "raised" /\ UNCHANGED eresult
         [] einput.proposal = "event" ->
                 /\ epc' = "returned"
                 /\ eresult' = [kind |-> "event", event |-> "LogEvent",
                                fail_reason |-> "None",
                                event_strategy |-> estrat,
                                bets |-> <<>>, strategy |-> estrat]
         [] einput.proposal = "no_bets" ->
                 /\ epc' = "returned"
                 /\ eresult' = [kind |-> "bets", bets |-> <<>>,
                                strategy |-> estrat]
         [] einput.proposal = "bets" ->
                 /\ epc' = "returned"
                 /\ eresult' = [kind |-> "bets",
                                bets |-> <<[source_strategy |-> estrat]>>,
                                strategy |-> estrat]
    /\ UNCHANGED <<estrat, einput, q_idx, q_invoked, fail_result, propose_calls>>
    /\ UNCHANGED nonStratVars

\* the caller has the result (or the exception)
EvalEnds ==
    /\ epc \in {"returned", "raised"}
    /\ epc' = "idle"
    /\ estrat' = "HousekeepingStrategy"
    /\ einput' = NoEvalInput
    /\ q_idx' = 1
    /\ q_invoked' = <<>>
    /\ fail_result' = NoResult
    /\ propose_calls' = 0
    /\ eresult' = NoResult
    /\ UNCHANGED nonStratVars

NextStrat ==
    \/ \E c \in StrategyClasses : EvaluateAndPropose(c)
    \/ QualifyNext
    \/ ProposeReturns
    \/ EvalEnds

----------------------------------------------------------------------------
(* The reconciliation by itself: Core.get_proposed_response_result after    *)
(* the gather, and Core.combine_strat_results, for any number of            *)
(* registered strategies (src/src/core.py:115-155).                         *)

\* the most strategies registered (core.py:17-21)
MaxStrategies == 3

\* the results of n strategies that each propose one bet; strategy i is
\* named i
BatchesOf(n) ==
    {rs \in [1..n -> UNION {BetsOf(i) : i \in 1..n}] :
        \A i \in 1..n : rs[i].source_strategy = <<i>>}

Batches ==
    UNION {{[i \in 1..n |-> [kind |-> "bets", bets |-> <<rs[i]>>]] :
               rs \in BatchesOf(n)} : n \in 1..MaxStrategies}

NoOutcome == [bets |-> <<>>, raised |-> FALSE]

InitComb ==
    /\ comb_pc = "idle"
    /\ comb_in = <<>>
    /\ comb_out = NoOutcome

\* core.py:114: asyncio.gather returns the results rs
GatherReturned(rs) ==
    /\ comb_pc = "idle"
    /\ comb_pc' = "reconcile"
    /\ comb_in' = rs
    /\ comb_out' = NoOutcome
    /\ UNCHANGED nonCombVars

\* core.py:116-129: the results are filtered and combined
Reconciled ==
    /\ comb_pc = "reconcile"
    /\ comb_pc' = "returned"
    /\ comb_out' = get_proposed_response_result(comb_in)
    /\ UNCHANGED comb_in
    /\ UNCHANGED nonCombVars

\* on_bet_impl has the result; the next event can come
ReconcileEnds ==
    /\ comb_pc = "returned"
    /\ comb_pc' = "idle"
    /\ comb_in' = <<>>
    /\ comb_out' = NoOutcome
    /\ UNCHANGED nonCombVars

NextComb ==
    \/ \E rs \in Batches : GatherReturned(rs)
    \/ Reconciled
    \/ ReconcileEnds

----------------------------------------------------------------------------
(* ProposedBet: src/src/models/proposed_bet.py. A limit_prob is written in  *)
(* thousandths here, so 0.01 is 10 and 0.995 is 995.                        *)

\* BetConfig.MAX_BET_SIZE
MAX_BET_SIZE == 100

\* the amounts a bet is constructed with
Amounts == {-1, 0, 1, MAX_BET_SIZE - 1, MAX_BET_SIZE, MAX_BET_SIZE + 1,
            10 * MAX_BET_SIZE}

\* the limit_probs a bet is constructed with, in thousandths; none lies
\* halfway between two hundredths
LimitProbs == {0, 4, 9, 10, 11, 20, 500, 504, 980, 989, 990, 991, 1000, 1500}

\* the arguments of a construction: amount is an int or another number of
\* that size, limit_prob is a number or None
BetArgs ==
    [amount_is_int : BOOLEAN, amount : Amounts,
     limit_given : BOOLEAN, limit_prob : LimitProbs]

\* round(x, 2) of a number of thousandths
round_2(x) == IF x % 10 < 5 THEN x - (x % 10) ELSE x - (x % 10) + 10

\* proposed_bet.py:32, the range limit_prob is to be in
in_range_alt(x) == 10 < x /\ x < 990

in_range(x) == 10 <= x /\ x <= 990

\* proposed_bet.py:22-35: the error validate raises, or "None"
validate_error(a) ==
    IF ~a.amount_is_int THEN "amount must be an int"
    ELSE IF ~a.limit_given THEN "limit_prob required"
    ELSE IF ~in_range(a.limit_prob)
         THEN "limit_prob must be between 0.01 and 0.99"
    ELSE IF round_2(a.limit_prob) # a.limit_prob
         THEN "limit_prob must have at most two decimals"
    ELSE "None"

\* proposed_bet.py:28-29, the amount of the object
clamped(amount) == IF amount > MAX_BET_SIZE THEN MAX_BET_SIZE ELSE amount

NoBetArgs ==
    [amount_is_int |-> TRUE, amount |-> 0, limit_given |-> TRUE,
     limit_prob |-> 500]
NoBet == [kind |-> "none"]

InitBet ==
    /\ pb_pc = "idle"
    /\ pb_args = NoBetArgs
    /\ pb = NoBet

\* ProposedBet(...) is called: the dataclass stores the fields
Construct(a) ==
    /\ pb_pc = "idle"
    /\ pb_pc' = "post_init"
    /\ pb_args' = a
    /\ pb' = NoBet
    /\ UNCHANGED nonBetVars

\* proposed_bet.py:19-35: __post_init__ runs validate
PostInit ==
    /\ pb_pc = "post_init"
    /\ pb_pc' = "done"
    /\ pb' = IF validate_error(pb_args) = "None"
             THEN [kind |-> "bet", amount |-> clamped(pb_args.amount),
                   limit_prob |-> pb_args.limit_prob]
             ELSE [kind |-> "ValueError", message |-> validate_error(pb_args)]
    /\ UNCHANGED pb_args
    /\ UNCHANGED nonBetVars

\* the caller has the bet or the error
ConstructEnds ==
    /\ pb_pc = "done"
    /\ pb_pc' = "idle"
    /\ pb_args' = NoBetArgs
    /\ pb' = NoBet
    /\ UNCHANGED nonBetVars

NextBet ==
    \/ \E a \in BetArgs : Construct(a)
    \/ PostInit
    \/ ConstructEnds

----------------------------------------------------------------------------
(* The dispatch of frames in ManifoldClient.listen,                         *)
(* src/src/manifold_client.py:585-615, with the registrations of subscribe  *)
(* (624-632) going on beside it. The connection stays up here; what         *)
(* happens to it is the matter of the WebSocket session above.              *)

\* the most calls of subscribe
MaxRegistrations == 3
\* the most frames received
MaxFrames == 2
\* the most frames sent
MaxSent == 4

\* a callback is named by the number of its registration
Listeners == 1..MaxRegistrations

\* the topics argument of subscribe(): one topic or both
DispatchTopicLists == TopicLists \cup {<<"t1", "t2">>}

\* what recv returns: an ack, a broadcast of a topic, a frame of another
\* type, or text that is no JSON
Frames ==
    {[type |-> "ack", topic |-> "None"], [type |-> "pong", topic |-> "None"],
     [type |-> "garbled", topic |-> "None"]}
    \cup {[type |-> "broadcast", topic |-> tp] : tp \in Topics}

NoFrame == [type |-> "none", topic |-> "None"]

\* 599 and 606, the callbacks a broadcast of the topic goes to
topic_callbacks_alt(subs, topic) ==
    subs["t1"] \o subs["t2"]

topic_callbacks(subs, topic) == subs[topic]

\* 608 and 614, the handler that catches what a callback raises: the one
\* around the call, or the one around the handling of the frame
catching_handler_alt(exc) == "frame"

catching_handler(exc) == IF exc = "Exception" THEN "callback" ELSE "none"

InitDisp ==
    /\ d_subs = [tp \in Topics |-> <<>>]
    /\ d_nreg = 0
    /\ d_pc = "recv"
    /\ d_frame = NoFrame
    /\ d_idx = 0
    /\ d_calls = <<>>
    /\ d_raised = {}
    /\ d_log = <<>>
    /\ d_hist = <<>>
    /\ d_txid = 0
    /\ d_sent = <<>>

\* 505, 648, 664: self.txid += 1
next_txid_alt(t) == t

next_txid(t) == t + 1

\* 501-506, 643-649, 659-665: the message takes self.txid, self.txid is
\* incremented, and ws.send writes the frame before it suspends
written(sent, type, t) == Append(sent, [type |-> type, txid |-> t])

\* 624-649: subscribe registers the callback under each topic and, the
\* connection being up, _send_subscribe sends the subscribe frame
SubscribeRegisters(topics) ==
    /\ d_nreg < MaxRegistrations
    /\ Len(d_sent) < MaxSent
    /\ d_nreg' = d_nreg + 1
    /\ d_subs' = Register([subscriptions |-> d_subs], topics,
                          d_nreg + 1).subscriptions
    /\ d_sent' = written(d_sent, "subscribe", d_txid)
    /\ d_txid' = next_txid(d_txid)
    /\ UNCHANGED <<d_pc, d_frame, d_idx, d_calls, d_raised, d_log, d_hist>>
    /\ UNCHANGED nonDispVars

\* the frame is dealt with: the loop is back at recv (585-586)
FrameDone(f, calls, raised, log) ==
    /\ d_pc' = "recv"
    /\ d_frame' = NoFrame
    /\ d_idx' = 0
    /\ d_calls' = <<>>
    /\ d_raised' = {}
    /\ d_log' = <<>>
    /\ d_hist' = Append(d_hist, [frame |-> f, calls |-> calls,
                                 raised |-> raised, log |-> log,
                                 subs |-> d_subs])

\* 586-606: recv returns frame f. An ack is logged as an APIEvent and the
\* loop continues; a broadcast of a topic with callbacks has the first of
\* them awaited; text that is no JSON is logged as an ErrorEvent (612-613).
FrameArrives(f) ==
    /\ d_pc = "recv"
    /\ Len(d_hist) < MaxFrames
    /\ IF f.type = "broadcast" /\ topic_callbacks(d_subs, f.topic) # <<>>
       THEN /\ d_pc' = "callback"
            /\ d_frame' = f
            /\ d_idx' = 1
            /\ d_calls' = <<topic_callbacks(d_subs, f.topic)[1]>>
            /\ UNCHANGED <<d_raised, d_log, d_hist>>
       ELSE FrameDone(f, <<>>, {},
                      IF f.type = "garbled"
                      THEN <<[context |-> "Failed to parse message",
                              listener |-> 0]>>
                      ELSE <<>>)
    /\ UNCHANGED <<d_subs, d_nreg, d_txid, d_sent>>
    /\ UNCHANGED nonDispVars

\* 606-615: the awaited callback returns or raises. What it raises is
\* logged by the handler around the call and the for loop goes on with the
\* next callback of the list, which may have grown meanwhile.
CallbackEnds(outcome) ==
    /\ d_pc = "callback"
    /\ LET cb == d_calls[Len(d_calls)]
           h == IF outcome = "return" THEN "none" ELSE catching_handler(outcome)
           raised == IF outcome = "return" THEN d_raised ELSE d_raised \cup {cb}
           log == CASE h = "callback" ->
                         Append(d_log, [context |-> "Callback error for topic",
                                        listener |-> cb])
                    [] h = "frame" ->
                         Append(d_log, [context |-> "Error parsing message",
                                        listener |-> cb])
                    [] OTHER -> d_log
           cbs == topic_callbacks(d_subs, d_frame.topic)
       IN
       IF h # "frame" /\ d_idx < Len(cbs)
       THEN /\ d_idx' = d_idx + 1
            /\ d_calls' = Append(d_calls, cbs[d_idx + 1])
            /\ d_raised' = raised
            /\ d_log' = log
            /\ UNCHANGED <<d_pc, d_frame, d_hist>>
       ELSE FrameDone(d_frame, d_calls, raised, log)
    /\ UNCHANGED <<d_subs, d_nreg, d_txid, d_sent>>
    /\ UNCHANGED nonDispVars

NextDisp ==
    \/ \E topics \in DispatchTopicLists : SubscribeRegisters(topics)
    \/ \E f \in Frames : FrameArrives(f)
    \/ \E outcome \in {"return", "Exception"} : CallbackEnds(outcome)

----------------------------------------------------------------------------
(* subscribe and unsubscribe as calls with their awaits,                    *)
(* src/src/manifold_client.py:624-668, on a connection that stays up: the   *)
(* registration of SubscribeRegisters above is the part of subscribe before *)
(* its await.                                                               *)

\* the most calls of unsubscribe
MaxUnsubscribes == 1


NoUnsubscribe == [pc |-> "idle", topics |-> <<>>, since |-> 0]

InitSubs ==
    /\ d_returned = {}
    /\ d_unsub = NoUnsubscribe
    /\ d_nunsub = 0

\* 634-636: the await of _send_subscribe is over and subscribe returns
SubscribeReturns(cb) ==
    /\ cb \in 1..d_nreg
    /\ cb \notin d_returned
    /\ d_returned' = d_returned \cup {cb}
    /\ UNCHANGED <<d_unsub, d_nunsub>>
    /\ UNCHANGED nonSubsVars

\* 651-665: unsubscribe is called and is suspended in ws.send; since is
\* the number of registrations made before the call
UnsubscribeSends(topics) ==
    /\ d_unsub.pc = "idle"
    /\ d_nunsub < MaxUnsubscribes
    /\ Len(d_sent) < MaxSent
    /\ d_nunsub' = d_nunsub + 1
    /\ d_unsub' = [pc |-> "send_wait", topics |-> topics, since |-> d_nreg]
    /\ d_sent' = written(d_sent, "unsubscribe", d_txid)
    /\ d_txid' = next_txid(d_txid)
    /\ UNCHANGED d_returned
    /\ UNCHANGED <<d_subs, d_nreg, d_pc, d_frame, d_idx, d_calls, d_raised,
                   d_log, d_hist>>
    /\ UNCHANGED nonRegistryVars

\* 497-510: a round of _ping_loop on the connection: the ping frame is
\* sent and the task sleeps until the next round
PingSends ==
    /\ Len(d_sent) < MaxSent
    /\ d_sent' = written(d_sent, "ping", d_txid)
    /\ d_txid' = next_txid(d_txid)
    /\ UNCHANGED <<d_returned, d_unsub, d_nunsub>>
    /\ UNCHANGED <<d_subs, d_nreg, d_pc, d_frame, d_idx, d_calls, d_raised,
                   d_log, d_hist>>
    /\ UNCHANGED nonRegistryVars

\* 667-668, the map after the pops
popped(subs, topics) ==
    [tp \in Topics |-> IF tp \in Range(topics) THEN <<>> ELSE subs[tp]]

\* 665-668: ws.send returns and the topics are popped from the map, or it
\* raises and the map is left as it is
UnsubscribeEnds(sent) ==
    /\ d_unsub.pc = "send_wait"
    /\ d_unsub' = NoUnsubscribe
    /\ d_subs' = IF sent THEN popped(d_subs, d_unsub.topics) ELSE d_subs
    /\ UNCHANGED <<d_returned, d_nunsub>>
    /\ UNCHANGED <<d_nreg, d_pc, d_frame, d_idx, d_calls, d_raised, d_log,
                   d_hist, d_txid, d_sent>>
    /\ UNCHANGED nonRegistryVars

NextSubs ==
    \/ \E topics \in DispatchTopicLists : SubscribeRegisters(topics)
    \/ \E cb \in Listeners : SubscribeReturns(cb)
    \/ \E topics \in DispatchTopicLists : UnsubscribeSends(topics)
    \/ \E sent \in BOOLEAN : UnsubscribeEnds(sent)
    \/ PingSends

----------------------------------------------------------------------------
(* MarketLiquidityQualifier: src/src/qualifiers/qualifiers.py:95-137 *)

\* market.outcome_type; PSEUDO_NUMERIC stands for the types that are
\* neither BINARY nor MULTIPLE_CHOICE
OutcomeTypes == {"BINARY", "MULTIPLE_CHOICE", "PSEUDO_NUMERIC"}

\* market.get_answer_liquidity(bet.answer_id) (market.py:147-174): None
\* when the market has no figure for the answer, else the figure
AnswerLiquidities ==
    {[known |-> FALSE, value |-> 0]}
    \cup {[known |-> TRUE, value |-> v] : v \in Liquidities}

\* The bet and the market of one call. should_answers_sum_to_one is
\* Optional[bool] (market.py:66); total_liquidity is a number, the exchange
\* giving totalLiquidity for every market that takes bets.
QualifyInputs ==
    [outcome_type : OutcomeTypes,
     should_answers_sum_to_one : {"None", "True", "False"},
     total_liquidity : Liquidities,
     answer_id : Answers,
     answer_liquidity : AnswerLiquidities]

NoQualifyInput ==
    [outcome_type |-> "BINARY", should_answers_sum_to_one |-> "None",
     total_liquidity |-> 0, answer_id |-> "None",
     answer_liquidity |-> [known |-> FALSE, value |-> 0]]

NoQualification == [decision |-> "none", reason |-> "none"]

\* qualifiers.py:110 as it would be without the test of
\* should_answers_sum_to_one
per_answer_alt(inp) == inp.outcome_type = "MULTIPLE_CHOICE"

\* qualifiers.py:110: the liquidity of the bet's answer is what counts
per_answer(inp) ==
    /\ inp.outcome_type = "MULTIPLE_CHOICE"
    /\ inp.should_answers_sum_to_one # "True"

\* qualifiers.py:102-137, MarketLiquidityQualifier(min_liquidity).qualify
market_liquidity_qualify(inp) ==
    IF per_answer(inp)
    THEN IF inp.answer_id = "None"
         THEN [decision |-> "FAIL", reason |-> "MISSING_ANSWER_ID"]
         ELSE IF \/ ~inp.answer_liquidity.known
                 \/ inp.answer_liquidity.value < min_liquidity
              THEN [decision |-> "FAIL", reason |-> "LOW_ANSWER_LIQUIDITY"]
              ELSE [decision |-> "PASS", reason |-> "SUFFICIENT_LIQUIDITY"]
    ELSE IF liquidity_decision(inp.total_liquidity) = "FAIL"
         THEN [decision |-> "FAIL", reason |-> "LOW_LIQUIDITY"]
         ELSE [decision |-> "PASS", reason |-> "SUFFICIENT_LIQUIDITY"]

InitQual ==
    /\ ql_pc = "idle"
    /\ ql_in = NoQualifyInput
    /\ ql_out = NoQualification

\* qualify is called with a bet and its market
CallQualify ==
    /\ ql_pc = "idle"
    /\ \E inp \in QualifyInputs : ql_in' = inp
    /\ ql_pc' = "called"
    /\ UNCHANGED ql_out
    /\ UNCHANGED nonQualVars

\* qualifiers.py:102-137: the call returns its QualificationResult
QualifyReturns ==
    /\ ql_pc = "called"
    /\ ql_out' = market_liquidity_qualify(ql_in)
    /\ ql_pc' = "returned"
    /\ UNCHANGED ql_in
    /\ UNCHANGED nonQualVars

\* the caller has the result
QualifyEnds ==
    /\ ql_pc = "returned"
    /\ ql_pc' = "idle"
    /\ ql_in' = NoQualifyInput
    /\ ql_out' = NoQualification
    /\ UNCHANGED nonQualVars

NextQual ==
    \/ CallQualify
    \/ QualifyReturns
    \/ QualifyEnds

----------------------------------------------------------------------------
(* HousekeepingStrategy: src/src/strategies/housekeeping_strategy.py *)

\* the clock stops here
MaxClock == 12
\* the minutes of a day of the clock
MinutesPerDay == 6

\* HousekeepingConfig (config/housekeeping_config.py:2 and 10)
BALANCE_THRESHOLD == 3000
RUN_INTERVAL_MINUTES == 5

\* Optional[datetime]
NoneTime == [is_none |-> TRUE, t |-> 0]
At(t) == [is_none |-> FALSE, t |-> t]

\* datetime.date()
Date(t) == t \div MinutesPerDay

\* bot_user.balance
Balances == {1000, 3100}

\* A transaction get_transactions returns: a managram with the killswitch
\* phrase from RECIPIENT_USER_ID, one with the phrase from somebody else,
\* or a payment without the phrase
TxnKinds == {"owner_kill", "other_kill", "payment"}
TxnLists == SeqsUpTo(TxnKinds, 2)

\* what the call of client.request_loan comes to
LoanOutcomes == {"ok", "already_awarded", "error"}

IdleRun ==
    [pc |-> "idle", now |-> 0, balance |-> 0, txns |-> <<>>, calls |-> <<>>,
     actions |-> <<>>, messages |-> <<>>, loan |-> "none", has_event |-> FALSE]

\* 166-171 as it would be with the interval a minute shorter
too_recent_alt(last_run, t_now) ==
    ~last_run.is_none /\ t_now - last_run.t < RUN_INTERVAL_MINUTES - 1

\* 166-171, the test of the rate limit
too_recent(last_run, t_now) ==
    ~last_run.is_none /\ t_now - last_run.t < RUN_INTERVAL_MINUTES

\* 83-86 as it would be comparing the times and not their dates
loan_due_alt(last, t_now) == last.is_none \/ t_now # last.t

\* 83-86, whether _request_loan calls request_loan
loan_due(last, t_now) == last.is_none \/ Date(t_now) # Date(last.t)

\* 41-45: the first transaction of the list whose message has the phrase,
\* 0 when none has
first_kill(txns) ==
    IF \E i \in 1..Len(txns) : txns[i] # "payment"
    THEN CHOOSE i \in 1..Len(txns) :
            /\ txns[i] # "payment"
            /\ \A j \in 1..(i - 1) : txns[j] = "payment"
    ELSE 0

\* 31-79, _check_remote_shutdown once get_transactions has returned txns
check_remote_shutdown(txns) ==
    LET i == first_kill(txns) IN
    IF i = 0 THEN [outcome |-> "none", calls |-> <<>>, actions |-> <<>>]
    ELSE IF txns[i] = "owner_kill"
    THEN [outcome |-> "exit", calls |-> <<"send_managram_to_sender">>,
          actions |-> <<>>]
    ELSE [outcome |-> "egg", calls |-> <<"send_managram_to_recipient">>,
          actions |-> <<"EASTER_EGG", "SEND_MANAGRAM">>]

\* 87-110, _request_loan when the loan is due and request_loan came to o:
\* the action and the message of the event and whether the request is
\* recorded
request_loan_event(o) ==
    CASE o = "ok" ->
             [action |-> "RECEIVED_LOAN", records |-> TRUE,
              message |-> "Successfully requested loan"]
      [] o = "already_awarded" ->
             [action |-> "ALREADY_REQUESTED_LOAN", records |-> TRUE,
              message |-> "Already awarded loan today"]
      [] o = "error" ->
             [action |-> "REQUEST_LOAN_FAIL", records |-> FALSE,
              message |-> "error"]

InitHk ==
    /\ hk_clock = 0
    /\ hk_last_run = NoneTime
    /\ hk_last_loan_request = NoneTime
    /\ hk_run = IdleRun

\* time passes between two calls
HkTick ==
    /\ hk_run.pc = "idle"
    /\ hk_clock < MaxClock
    /\ hk_clock' = hk_clock + 1
    /\ UNCHANGED <<hk_last_run, hk_last_loan_request, hk_run>>
    /\ UNCHANGED nonHkVars

\* 158-174: propose_bet is called; within the interval it returns an empty
\* StrategyResult, else it records the run and awaits get_user_by_id
ProposeBet ==
    /\ hk_run.pc = "idle"
    /\ IF too_recent(hk_last_run, hk_clock)
       THEN /\ hk_run' = [IdleRun EXCEPT !.pc = "returned", !.now = hk_clock]
            /\ UNCHANGED hk_last_run
       ELSE /\ hk_run' = [IdleRun EXCEPT !.pc = "user", !.now = hk_clock,
                                         !.calls = <<"get_user_by_id">>]
            /\ hk_last_run' = At(hk_clock)
    /\ UNCHANGED <<hk_clock, hk_last_loan_request>>
    /\ UNCHANGED nonHkVars

\* 174 and 36-40: the user is fetched and get_transactions is awaited
UserFetched ==
    /\ hk_run.pc = "user"
    /\ \E b \in Balances :
          hk_run' = [hk_run EXCEPT !.pc = "txns", !.balance = b,
                                   !.calls = Append(@, "get_transactions")]
    /\ UNCHANGED <<hk_clock, hk_last_run, hk_last_loan_request>>
    /\ UNCHANGED nonHkVars

\* 41-79 and 177-178: the transactions are scanned; SystemExit leaves
\* propose_bet
TxnsScanned ==
    /\ hk_run.pc = "txns"
    /\ \E txns \in TxnLists :
          LET r == check_remote_shutdown(txns) IN
          hk_run' = [hk_run EXCEPT
                        !.pc = IF r.outcome = "exit" THEN "exited" ELSE "loan",
                        !.txns = txns,
                        !.calls = @ \o r.calls,
                        !.actions = @ \o r.actions]
    /\ UNCHANGED <<hk_clock, hk_last_run, hk_last_loan_request>>
    /\ UNCHANGED nonHkVars

\* 81-111 and 180-181: _request_loan
LoanStep ==
    /\ hk_run.pc = "loan"
    /\ IF loan_due(hk_last_loan_request, hk_run.now)
       THEN \E o \in LoanOutcomes :
               LET e == request_loan_event(o) IN
               /\ hk_run' = [hk_run EXCEPT
                                !.pc = "balance",
                                !.loan = o,
                                !.calls = Append(@, "request_loan"),
                                !.actions = Append(@, e.action),
                                !.messages = Append(@, e.message)]
               /\ hk_last_loan_request' =
                     IF e.records THEN At(hk_run.now) ELSE hk_last_loan_request
       ELSE /\ hk_run' = [hk_run EXCEPT !.pc = "balance"]
            /\ UNCHANGED hk_last_loan_request
    /\ UNCHANGED <<hk_clock, hk_last_run>>
    /\ UNCHANGED nonHkVars

\* 113-136 and 183-188: the excess balance is sent and the events are
\* merged into the event of the StrategyResult
BalanceStep ==
    /\ hk_run.pc = "balance"
    /\ hk_run' =
          IF hk_run.balance > BALANCE_THRESHOLD
          THEN [hk_run EXCEPT
                   !.pc = "returned", !.has_event = TRUE,
                   !.calls = Append(@, "send_managram_to_recipient"),
                   !.actions = Append(@, "TRANSFER_EXCESS_BALANCE")]
          ELSE [hk_run EXCEPT !.pc = "returned", !.has_event = TRUE]
    /\ UNCHANGED <<hk_clock, hk_last_run, hk_last_loan_request>>
    /\ UNCHANGED nonHkVars

\* the caller has the StrategyResult
RunEnds ==
    /\ hk_run.pc = "returned"
    /\ hk_run' = IdleRun
    /\ UNCHANGED <<hk_clock, hk_last_run, hk_last_loan_request>>
    /\ UNCHANGED nonHkVars

NextHk ==
    \/ HkTick
    \/ ProposeBet
    \/ UserFetched
    \/ TxnsScanned
    \/ LoanStep
    \/ BalanceStep
    \/ RunEnds

----------------------------------------------------------------------------
(* Claims about HousekeepingStrategy *)

\* the calls of client.request_loan a run has made
Requests(run) ==
    Cardinality({i \in 1..Len(run.calls) : run.calls[i] = "request_loan"})

HasTxn(txns, kind) == \E i \in 1..Len(txns) : txns[i] = kind

\* C33: a call of propose_bet less than RUN_INTERVAL_MINUTES after the last
\* run makes no call of the client and returns a StrategyResult without an
\* event (the strategy never proposes a bet), and it is not itself a run:
\* _last_run and _last_loan_request stay
C33_RateLimit ==
    [][(/\ hk_run.pc = "idle"
        /\ hk_run'.pc # "idle"
        /\ ~hk_last_run.is_none
        /\ hk_clock - hk_last_run.t < RUN_INTERVAL_MINUTES)
       => /\ hk_run'.pc = "returned"
          /\ hk_run'.calls = <<>>
          /\ hk_run'.actions = <<>>
          /\ ~hk_run'.has_event
          /\ UNCHANGED <<hk_last_run, hk_last_loan_request>>]_vars

\* a call one minute short of the interval has returned
C33_Witness ==
    /\ hk_run.pc = "returned"
    /\ ~hk_last_run.is_none
    /\ hk_run.now - hk_last_run.t = RUN_INTERVAL_MINUTES - 1
    /\ hk_run.calls = <<>>
    /\ ~hk_run.has_event

C35_DuplicateLoanError ==
    [][(hk_run.pc = "loan" /\ hk_run'.loan = "already_awarded")
       => /\ hk_last_loan_request' = At(hk_run.now)
          /\ "REQUEST_LOAN_FAIL" \in Range(hk_run'.actions)
          /\ "Already awarded loan today" \in Range(hk_run'.messages)]_vars

\* C36: a run raises SystemExit exactly when a scanned managram with the
\* phrase is from RECIPIENT_USER_ID; then the confirmation went to the
\* sender and nothing was requested or transferred; the phrase from other
\* senders only is forwarded to RECIPIENT_USER_ID and gives EASTER_EGG
C36_RemoteShutdown ==
    /\ hk_run.pc = "exited" <=> HasTxn(hk_run.txns, "owner_kill")
    /\ hk_run.pc = "exited"
         => /\ hk_run.calls[Len(hk_run.calls)] = "send_managram_to_sender"
            /\ Requests(hk_run) = 0
            /\ "send_managram_to_recipient" \notin Range(hk_run.calls)
    /\ (HasTxn(hk_run.txns, "other_kill") /\ ~HasTxn(hk_run.txns, "owner_kill"))
         => /\ hk_run.pc # "exited"
            /\ "send_managram_to_recipient" \in Range(hk_run.calls)
            /\ "EASTER_EGG" \in Range(hk_run.actions)

----------------------------------------------------------------------------
(* Specifications *)

Init == InitCore /\ InitHttp /\ InitWs /\ InitStrat /\ InitComb
        /\ InitBet /\ InitDisp /\ InitSubs /\ InitQual
        /\ InitHk

SpecCore == Init /\ [][NextCore]_vars

SpecHttp == Init /\ [][NextHttp]_vars

SpecHttpSeq == Init /\ [][NextHttpSeq]_vars

SpecWs == Init /\ [][NextWs]_vars

SpecStrat == Init /\ [][NextStrat]_vars

SpecComb == Init /\ [][NextComb]_vars

SpecBet == Init /\ [][NextBet]_vars

SpecDisp == Init /\ [][NextDisp]_vars

SpecSubs == Init /\ [][NextSubs]_vars

SpecQual == Init /\ [][NextQual]_vars

SpecHk == Init /\ [][NextHk]_vars

\* The event loop runs every task that can run, an await on a closed
\* connection raises, and an opening handshake ends one way or the other.
\* Nothing obliges the peer to send a frame or the network to fail.
SpecWsLive ==
    /\ Init
    /\ [][NextWs]_vars
    /\ WF_vars(ListenResumes)
    /\ WF_vars(ListenConnectOk \/ ListenConnectFails)
    /\ WF_vars(RecvClosed)
    /\ \A p \in Socks : WF_vars(PingRound(p))
    /\ \A c \in Callers : WF_vars(CallerResumes(c))
    /\ \A c \in Callers : WF_vars(CallerConnectOk(c) \/ CallerConnectFails(c))

----------------------------------------------------------------------------
(* Claims about Core *)

\* C2: the action set returned by get_proposed_response_result holds at most
\* one ProposedBet per (contract_id, answer_id, outcome) triple, whatever the
\* strategies returned (one strategy returning several bets included).
C2_OneBetPerTriple ==
    \A i, j \in 1..Len(proposed) :
        Triple(proposed[i]) = Triple(proposed[j]) => i = j

\* C3: when a strategy's evaluate_and_propose raises, the proposals of every
\* sibling strategy for the same event are still submitted: once on_bet has
\* finished an event of a BINARY market in which a strategy raised, every bet
\* a sibling proposed has an order placed for its triple.
C3_ErrorIsolation ==
    (/\ cpc = "done"
     /\ mkt_type = "BINARY"
     /\ \E s \in Strategies : results[s].kind = "raise")
    => \A s \in Strategies :
          results[s].kind = "bets" =>
             \A i \in 1..Len(results[s].bets) :
                \E k \in 1..Len(placed) :
                    Triple(placed[k]) = Triple(results[s].bets[i])

\* the (triple, amount, limit) values of a list of bets
BetValues(bs) ==
    {<<Triple(bs[i]), bs[i].amount, bs[i].limit_prob>> : i \in 1..Len(bs)}

Reverse(sq) == [i \in 1..Len(sq) |-> sq[Len(sq) + 1 - i]]

MergeValuesOK(rs) ==
    LET ins == all_bets(rs)
        out == combine_strat_results(rs)
        group(t) == {i \in 1..Len(ins) : Triple(ins[i]) = t}
        hits(t) == {k \in 1..Len(out.bets) : Triple(out.bets[k]) = t}
    IN
    /\ ~out.raised
    /\ \A c \in Contracts, a \in Answers, o \in Outcomes :
          LET t == <<c, a, o>> IN
          IF group(t) = {}
          THEN hits(t) = {}
          ELSE /\ Cardinality(hits(t)) = 1
               /\ LET m == out.bets[CHOOSE k \in hits(t) : TRUE]
                      amounts == {ins[i].amount : i \in group(t)}
                      limits == {ins[i].limit_prob : i \in group(t)}
                  IN
                  /\ m.amount = SetMax(amounts)
                  /\ m.limit_prob = IF o = "YES" THEN SetMax(limits)
                                    ELSE SetMin(limits)
                  /\ Cardinality(group(t)) = 1 =>
                        m = ins[CHOOSE i \in group(t) : TRUE]
    /\ BetValues(out.bets) = BetValues(combine_strat_results(Reverse(rs)).bets)

\* C4: for the strategy results of any event, combine_strat_results yields
\* for each group of proposals sharing (contract_id, answer_id, outcome)
\* exactly one action, whose amount is the group's maximum and whose
\* limit_prob is the group's maximum for YES and minimum for NO, whatever the
\* order of the strategies; a group of size one is returned unchanged.
C4_MergeValues ==
    (\A s \in Strategies : results[s].kind \in {"event", "bets"})
    => /\ MergeValuesOK(bet_results(GatherResults))
       /\ \A s \in Strategies :
             results[s].kind = "bets" => MergeValuesOK(<<results[s]>>)

\* C4 witness: two strategies proposed on one YES triple with different
\* sizings and the merged bet (largest amount, highest limit) is up for
\* submission.
C4_Witness ==
    /\ cpc = "submit"
    /\ \E i \in 1..Len(proposed) :
          /\ Len(proposed[i].source_strategy) >= 2
          /\ proposed[i].outcome = "YES"
          /\ proposed[i].amount = 20
          /\ proposed[i].limit_prob = 60

\* C16: the evaluations of one event are all started by the one step that
\* begins the wait for the batch, no bet is reconciled
\* or submitted while the batch is awaited, and the step that ends the wait
\* with reconciled bets is taken only when every strategy has completed.
C16_BatchJoin ==
    [][ /\ (cpc = "idle" /\ cpc' = "gather") =>
              \A s \in Strategies : results'[s] = Pending
        /\ cpc = "gather" => proposed = <<>> /\ placed = <<>>
        /\ (cpc = "gather" /\ (proposed' # <<>> \/ cpc' = "submit")) =>
              \A s \in Strategies : results[s].kind \in {"event", "bets"}
        /\ Len(placed') > Len(placed) => cpc = "submit" ]_vars

\* both strategies completed, two bets came out of the reconciliation and
\* the first of them was submitted
C16_Witness ==
    /\ cpc = "submit"
    /\ Len(proposed) = 2
    /\ Len(placed) = 1

\* the strategies of batch rs that propose a bet on triple t
Proposers(rs, t) ==
    {i \in 1..Len(rs) : \E k \in 1..Len(rs[i].bets) : Triple(rs[i].bets[k]) = t}

Triples == Contracts \X Answers \X Outcomes

OfType(log, ty) == {i \in 1..Len(log) : log[i].type = ty}

\* C28: when the evaluation of the strategies is over, the sink has one
\* record for each strategy whose qualifier chain failed, tagged as that
\* strategy's qualification failure, and one ErrorEvent for each strategy
\* that raised.
C28_FailuresReported ==
    [][(cpc = "gather" /\ cpc' # "gather") =>
          /\ \A s \in Strategies :
                results[s].kind = "event" =>
                   \E i \in OfType(core_log', "QualificationFailEvent") :
                       core_log'[i].source = s
          /\ Cardinality(OfType(core_log', "ErrorEvent"))
                >= Cardinality({s \in Strategies : results[s].kind = "raise"})
      ]_vars

\* the PlaceBetEvents of the log, in the order of logging
RECURSIVE PlaceBetEvents(_)
PlaceBetEvents(log) ==
    IF log = <<>> THEN <<>>
    ELSE IF Head(log).type = "PlaceBetEvent"
         THEN <<Head(log)>> \o PlaceBetEvents(Tail(log))
         ELSE PlaceBetEvents(Tail(log))

\* the proposed bets that on_bet_impl does not skip (core.py:68-74)
Submittable == {i \in 1..Len(proposed) :
                   ~(mkt_type = "MULTIPLE_CHOICE"
                     /\ proposed[i].answer_id = "None")}

\* the proposed bet behind the k-th order
ProposalOf(k) ==
    proposed[CHOOSE i \in Submittable :
                 Cardinality({j \in Submittable : j <= i}) = k]

\* event e is the record of the k-th order
RecordsOrder(e, k) ==
    /\ k <= Cardinality(Submittable)
    /\ e.amount = placed[k].amount
    /\ e.filled_amount \in Fills(placed[k].amount)
    /\ e.outcome = placed[k].outcome
    /\ e.contract_id = placed[k].contract_id
    /\ e.limit_prob = placed[k].limit_prob
    /\ e.answer_id = placed[k].answer_id
    /\ e.strategy = ProposalOf(k).source_strategy
    /\ e.ws_to_api_ms = k - 1

\* C29 as stated: every order handed to place_bet has its PlaceBetEvent in
\* the log, the k-th event being the record of the k-th order, and there
\* are no other PlaceBetEvents.
C29_OneRecordPerOrder ==
    LET evs == PlaceBetEvents(core_log) IN
    /\ Len(evs) = Len(placed)
    /\ \A k \in 1..Len(evs) : RecordsOrder(evs[k], k)

\* C29 amended: every order whose place_bet returned has exactly one
\* PlaceBetEvent, logged after the return and carrying the submitted
\* amount, the filled amount, outcome, limit probability, answer id, source
\* strategies and the latency measured before the call; there is no
\* PlaceBetEvent without an order; the one order that can lack its event is
\* the last, whose place_bet raised: on_bet logged an ErrorEvent for it and
\* the handling of the event ended.
C29_OneRecordPerReturnedOrder ==
    LET evs == PlaceBetEvents(core_log) IN
    /\ Len(evs) <= Len(placed)
    /\ Len(placed) <= Len(evs) + 1
    /\ \A k \in 1..Len(evs) : k <= Len(placed) /\ RecordsOrder(evs[k], k)
    /\ Len(evs) < Len(placed) =>
          /\ cpc = "done"
          /\ core_log # <<>>
          /\ core_log[Len(core_log)] = [type |-> "ErrorEvent", source |-> "on_bet"]

\* two orders went out for one event, the first of a proposal of amount 0
\* submitted as 1, and both have their record
C29_Witness ==
    /\ cpc = "done"
    /\ Len(placed) = 2
    /\ Len(PlaceBetEvents(core_log)) = 2
    /\ proposed[1].amount = 0
    /\ PlaceBetEvents(core_log)[1].amount = 1
    /\ PlaceBetEvents(core_log)[2].filled_amount = 0
    /\ PlaceBetEvents(core_log)[2].amount = 20

\* the step in which a call of place_bet raises
PlaceBetFails ==
    /\ cpc = "submit"
    /\ Len(placed') = Len(placed) + 1
    /\ core_log' = Append(core_log, [type |-> "ErrorEvent", source |-> "on_bet"])

\* C39: when place_bet raises for one bet of a reaction, the handling of
\* the event ends there: the bets after it are not submitted, the orders
\* placed before stay as they are and none is placed again, the log has
\* exactly one ErrorEvent of on_bet, and on_bet returns so that listen()
\* goes on to the next frame.
C39_SubmissionFailure ==
    [][/\ PlaceBetFails =>
             /\ cpc' = "done"
             /\ bet_idx' = bet_idx
             /\ proposed' = proposed
             /\ SubSeq(placed', 1, Len(placed)) = placed
             /\ Cardinality({i \in OfType(core_log', "ErrorEvent") :
                                 core_log'[i].source = "on_bet"}) = 1
             /\ Len(PlaceBetEvents(core_log')) = Len(placed)
       /\ cpc = "done" => (cpc' = "idle" /\ placed' = <<>>)
      ]_vars

\* the second of three bets failed after the first had been placed
C39_Witness ==
    /\ cpc = "done"
    /\ Len(proposed) = 3
    /\ bet_idx = 2
    /\ Len(placed) = 2
    /\ Len(core_log) = 2
    /\ core_log[1].type = "PlaceBetEvent"
    /\ core_log[2] = [type |-> "ErrorEvent", source |-> "on_bet"]

\* C40: no order is submitted for a MULTIPLE_CHOICE market from a proposal
\* without answer id: the proposal is skipped with one ErrorEvent of
\* on_bet_impl and no call of place_bet, and the loop goes on with the next
\* proposal; every order submitted has an amount of at least 1.
C40_SkipsMissingAnswer ==
    [][/\ \A k \in 1..Len(placed') :
             /\ placed'[k].amount >= 1
             /\ mkt_type' = "MULTIPLE_CHOICE" => placed'[k].answer_id # "None"
       /\ (/\ cpc = "submit"
           /\ mkt_type = "MULTIPLE_CHOICE"
           /\ proposed[bet_idx].answer_id = "None")
          => /\ placed' = placed
             /\ core_log' = Append(core_log, [type |-> "ErrorEvent",
                                              source |-> "on_bet_impl"])
             /\ bet_idx' = bet_idx + 1
             /\ cpc' = IF bet_idx < Len(proposed) THEN "submit" ELSE "done"
      ]_vars

\* a proposal without answer id was skipped and the proposal after it, of
\* amount 0, went out with amount 1
C40_Witness ==
    /\ cpc = "done"
    /\ mkt_type = "MULTIPLE_CHOICE"
    /\ Len(proposed) = 2
    /\ proposed[1].answer_id = "None"
    /\ proposed[2].amount = 0
    /\ Len(placed) = 1
    /\ placed[1].answer_id = "a1"
    /\ placed[1].amount = 1
    /\ Len(core_log) = 2
    /\ core_log[1] = [type |-> "ErrorEvent", source |-> "on_bet_impl"]
    /\ core_log[2].type = "PlaceBetEvent"

----------------------------------------------------------------------------
(* Claims about the HTTP layer *)

\* C1: a call of _make_request with is_get=False issues at most one HTTP
\* POST, whatever the outcome: a write is never sent a second time.
C1_WriteSentOnce ==
    \A t \in Tasks :
        (req[t].pc # "idle" /\ ~req[t].input.is_get) => req[t].calls <= 1

\* C10: of two sequential reads of one endpoint and parameters, the first
\* fetched with one network call and the second started less than the TTL
\* later, the second issues no network call and returns data equal to what
\* the first returned; a read that finds its entry older than the TTL and
\* meets no network failure issues exactly one network call.
C10_ReadCache ==
    LET r == req["T1"]
        ttl == effective_ttl(r.input.endpoint)
    IN (r.pc = "returned" /\ r.input.is_get) =>
          /\ (r.prev.valid /\ r.prev.calls = 1 /\ r.start - r.prev.start < ttl)
                => (r.calls = 0 /\ r.ret0 = r.prev.data)
          /\ (r.stale /\ r.attempt = 0) => r.calls = 1

\* C11: a caller that mutates the object a read returned to it, whether the
\* read was served from the cache or fetched and then cached, leaves every
\* cache entry as it was.
C11_CallerCannotChangeCache ==
    [][(\E t \in Tasks : /\ req[t].pc = "returned"
                         /\ req'[t].pc = "returned"
                         /\ req'[t].ret # req[t].ret)
          => cache' = cache]_vars

\* C12: a read whose every attempt fails with a ClientError is attempted
\* exactly max_retries times, sleeps retry_delay between two attempts and
\* not after the last, and fails with an exception that reports the number
\* of attempts; a read makes no attempt after one that succeeded.
C12_BoundedRetry ==
    \A t \in Tasks :
        LET r == req[t] IN
        (r.pc # "idle" /\ r.input.is_get /\ r.calls >= 1) =>
            /\ r.calls <= max_retries
            /\ r.calls = r.attempt + 1
            /\ r.sleeps = IF r.pc = "sleep" THEN r.calls ELSE r.calls - 1
            /\ r.waited = r.sleeps * retry_delay
            /\ (r.pc = "failed" /\ r.err = "retries_exhausted") =>
                  /\ r.calls = max_retries
                  /\ r.reported = r.calls
                  /\ r.waited = (max_retries - 1) * retry_delay

\* C12 witness: a read has given up after its last attempt failed.
C12_Witness ==
    /\ req["T1"].pc = "failed"
    /\ req["T1"].input.is_get
    /\ req["T1"].err = "retries_exhausted"
    /\ req["T1"].calls = max_retries
    /\ req["T1"].sleeps = max_retries - 1

\* C13: a response with status >= 400 ends the request at once with the API
\* error: no attempt follows it, so that it is the only HTTP call when it
\* answers the first attempt, and it stores nothing in the cache.
C13_ApiErrorNotRetried ==
    [][\A t \in Tasks :
          /\ (req[t].pc = "inflight" /\ req'[t].pc # "inflight"
                 /\ req'[t].raised = "Exception")
                => /\ req'[t].pc = "failed"
                   /\ req'[t].err = "api_error"
                   /\ req'[t].calls = req[t].calls
                   /\ req[t].attempt = 0 => req'[t].calls = 1
                   /\ req'[t].sleeps = req[t].sleeps
                   /\ cache' = cache
          /\ (req[t].pc = "failed" /\ req[t].err = "api_error")
                => (req'[t] = req[t] \/ req'[t].pc = "idle")]_vars

\* C13 witness: a read failed with an API error after one HTTP call, and its
\* key has no cache entry.
C13_Witness ==
    /\ req["T1"].pc = "failed"
    /\ req["T1"].err = "api_error"
    /\ req["T1"].input.is_get
    /\ req["T1"].calls = 1
    /\ ~cache[req["T1"].key].present

\* C23: two reads of one cache key never have a network call each under
\* way at the same time.
C23_SingleFlight ==
    \A t1, t2 \in Tasks :
        (t1 # t2 /\ req[t1].pc \in {"inflight", "sleep"} /\ req[t1].key # <<>>
            /\ req[t2].pc \in {"inflight", "sleep"})
        => req[t1].key # req[t2].key

\* C24: the step in which a cacheable read consults the cache removes every
\* entry whose age is at least the TTL of the entry's own endpoint and keeps
\* every younger entry as it is.
C24_Sweep ==
    [][\A t \in Tasks :
          (req[t].pc = "idle" /\ req'[t].pc # "idle" /\ req'[t].key # <<>>) =>
              \A k \in Keys :
                  cache'[k] = IF cache[k].present
                                 /\ now - cache[k].ts >= effective_ttl(k[1])
                              THEN NoEntry
                              ELSE cache[k]]_vars

\* a read of the portfolio history found its entry at the age of the
\* endpoint's own TTL, which is longer than the default, and removed it
C24_Witness ==
    /\ req["T1"].pc = "inflight"
    /\ req["T1"].input.endpoint = "get-user-portfolio-history"
    /\ req["T1"].stale
    /\ req["T1"].start = PortfolioTtl
    /\ ~cache[req["T1"].key].present

\* C25: a read that goes to the network has no entry under its key when the
\* request is issued; when its request succeeds the cache holds the fresh
\* response under the key, stamped with the time of its arrival; when its
\* request fails the cache holds no entry under the key; and a read served
\* from the cache is served an entry younger than its TTL.
C25_EvictBeforeRequest ==
    [][\A t \in Tasks :
          LET k == req'[t].key IN
          /\ (req[t].pc = "idle" /\ req'[t].pc = "inflight" /\ k # <<>>) =>
                ~cache'[k].present
          /\ (req[t].pc = "inflight" /\ req'[t].pc = "returned" /\ k # <<>>) =>
                cache'[k] = [present |-> TRUE, ts |-> now,
                             data |-> [ver |-> srv_ver, form |-> "raw"]]
          /\ (req[t].pc = "inflight" /\ req'[t].pc = "failed" /\ k # <<>>) =>
                ~cache'[k].present
          /\ (req[t].pc = "idle" /\ req'[t].pc = "returned" /\ k # <<>>) =>
                /\ cache[k].present
                /\ now - cache[k].ts < effective_ttl(k[1])
                /\ req'[t].ret = cache[k].data]_vars

----------------------------------------------------------------------------
(* Claims about one strategy evaluation *)

\* the order the chain is to be gone through in: the base qualifiers, then
\* the strategy's own
ClaimedOrder(c) == base_qualifiers(c) \o qualifiers(c)

\* the indices of ClaimedOrder whose qualifier does not pass the input
NotPassing(c, inp) ==
    {i \in 1..Len(ClaimedOrder(c)) : Decision(ClaimedOrder(c)[i], inp) # "PASS"}

\* the chain has come to its end in this evaluation
ChainEnded == epc \in {"propose", "returned", "raised"} /\ einput.given

\* C14: _run_qualifiers calls the base qualifiers and then the strategy's
\* qualifiers in order, each one only after all before it passed; it
\* returns None (the chain passes) iff every qualifier passes, and
\* otherwise returns the result of the first qualifier that fails, reason
\* included, with no qualifier after that one called.
C14_ShortCircuit ==
    LET ch == ClaimedOrder(estrat)
        np == NotPassing(estrat, einput)
    IN
    /\ Len(q_invoked) <= Len(ch)
    /\ q_invoked = SubSeq(ch, 1, Len(q_invoked))
    /\ \A i \in 1..(Len(q_invoked) - 1) : Decision(ch[i], einput) = "PASS"
    /\ ChainEnded => (fail_result.kind = "None" <=> np = {})
    /\ fail_result.kind = "None" => q_invoked = ch
    /\ fail_result.kind = "FAIL" =>
          /\ np # {}
          /\ Decision(ch[SetMin(np)], einput) = "FAIL"
          /\ fail_result.qualifier = ch[SetMin(np)]
          /\ fail_result.reason = FailReason(ch[SetMin(np)])
          /\ q_invoked = SubSeq(ch, 1, SetMin(np))

\* the liquidity qualifier failed after the seven base qualifiers passed,
\* and the position check, which would have failed too, was not called
C14_Witness ==
    /\ epc = "returned"
    /\ fail_result.kind = "FAIL"
    /\ fail_result.reason = "LOW_LIQUIDITY"
    /\ einput.overinvested = "FAIL"
    /\ Len(q_invoked) = Len(BASE_QUALIFIERS) + 1

\* C15: propose_bet is called only after every qualifier of the chain
\* passed, and at most once; when a qualifier fails, propose_bet is not
\* called and the result is a qualification-failure event with the reason
\* of the failing qualifier and no bets. A market of liquidity 10 against the
\* floor 100 gives LOW_LIQUIDITY when the base qualifiers pass.
C15_ProposeOnlyAfterPass ==
    /\ propose_calls \in {0, 1}
    /\ propose_calls = 1 =>
          /\ NotPassing(estrat, einput) = {}
          /\ fail_result.kind = "None"
          /\ q_invoked = ClaimedOrder(estrat)
    /\ (ChainEnded /\ NotPassing(estrat, einput) = {}) => propose_calls = 1
    /\ fail_result.kind = "FAIL" =>
          /\ propose_calls = 0
          /\ epc = "returned"
          /\ eresult.kind = "event"
          /\ eresult.event = "QualificationFailEvent"
          /\ eresult.fail_reason = fail_result.reason
          /\ eresult.bets = <<>>
    /\ ( /\ epc = "returned"
         /\ einput.given
         /\ estrat = "SubclassStrategy"
         /\ \A q \in Range(BASE_QUALIFIERS) : einput.base[q] = "PASS"
         /\ einput.total_liquidity = 10
         /\ min_liquidity = 100 ) =>
             /\ eresult.kind = "event"
             /\ eresult.fail_reason = "LOW_LIQUIDITY"
             /\ propose_calls = 0

\* liquidity 10 against the floor 100, with a proposal that was ready
C15_Witness ==
    /\ epc = "returned"
    /\ estrat = "SubclassStrategy"
    /\ einput.total_liquidity = 10
    /\ einput.proposal = "bets"
    /\ eresult.kind = "event"
    /\ eresult.fail_reason = "LOW_LIQUIDITY"
    /\ propose_calls = 0

\* s begins with the sequence p
HasPrefix(s, p) == Len(s) >= Len(p) /\ SubSeq(s, 1, Len(p)) = p

\* C27: the chain of every strategy, HousekeepingStrategy included, begins
\* with the seven base qualifiers: the chain of the strategy evaluating has
\* them as its prefix, and propose_bet is reached only after they were
\* invoked, in that order.
C27_FixedPrefix ==
    (epc # "idle" /\ einput.given) =>
        /\ HasPrefix(chain(estrat), BASE_QUALIFIERS)
        /\ epc = "propose" => HasPrefix(q_invoked, BASE_QUALIFIERS)

----------------------------------------------------------------------------
(* Claims about MarketLiquidityQualifier *)

Fail(reason) == [decision |-> "FAIL", reason |-> reason]

\* the market is a MULTIPLE_CHOICE market whose answers do not sum to one
IndependentMC(inp) ==
    /\ inp.outcome_type = "MULTIPLE_CHOICE"
    /\ inp.should_answers_sum_to_one # "True"

\* the verdict on the answer of the bet in an independent market
AnswerVerdict(inp) ==
    IF inp.answer_id = "None" THEN Fail("MISSING_ANSWER_ID")
    ELSE IF ~inp.answer_liquidity.known
            \/ inp.answer_liquidity.value < min_liquidity
         THEN Fail("LOW_ANSWER_LIQUIDITY")
         ELSE [decision |-> "PASS", reason |-> "SUFFICIENT_LIQUIDITY"]

----------------------------------------------------------------------------
(* Claims about ProposedBet *)

\* C18 as stated: no amount is rejected for its size, an amount above
\* MAX_BET_SIZE becomes MAX_BET_SIZE, and a bet is constructed only with a
\* limit_prob strictly between 0.01 and 0.99 that has at most two decimals.
C18_StrictlyInside ==
    (pb_pc = "done" /\ pb.kind = "bet") =>
        /\ pb.amount = Min2(pb_args.amount, MAX_BET_SIZE)
        /\ 10 < pb_args.limit_prob /\ pb_args.limit_prob < 990
        /\ pb_args.limit_prob % 10 = 0

\* C18 amended: the construction of a bet with an int amount and a
\* limit_prob succeeds exactly when the limit_prob lies in the closed range
\* from 0.01 to 0.99 and has at most two decimals; the bet then has the
\* smaller of its amount and MAX_BET_SIZE, whatever the amount was, and
\* otherwise a ValueError is raised.
C18_Validate ==
    pb_pc = "done" =>
        /\ pb.kind \in {"bet", "ValueError"}
        /\ pb.kind = "bet" <=>
              /\ pb_args.amount_is_int
              /\ pb_args.limit_given
              /\ 10 <= pb_args.limit_prob /\ pb_args.limit_prob <= 990
              /\ pb_args.limit_prob % 10 = 0
        /\ pb.kind = "bet" =>
              /\ pb.amount = Min2(pb_args.amount, MAX_BET_SIZE)
              /\ pb.limit_prob = pb_args.limit_prob

\* a bet of ten times the ceiling at the limit 0.99 was constructed, with
\* the ceiling as its amount
C18_Witness ==
    /\ pb_pc = "done"
    /\ pb_args.amount = 10 * MAX_BET_SIZE
    /\ pb_args.limit_prob = 990
    /\ pb.kind = "bet"
    /\ pb.amount = MAX_BET_SIZE

----------------------------------------------------------------------------
(* Claims about the dispatch of frames *)

\* the frames dealt with so far
Dealt == {d_hist[k] : k \in 1..Len(d_hist)}

\* C19: a frame that is no broadcast (an ack among them) is passed to no
\* callback; a broadcast is passed to the callbacks registered for its
\* topic, each once, in the order of their registration, and to no callback
\* that is not registered for its topic.
C19_Dispatch ==
    /\ \A h \in Dealt :
          /\ h.frame.type # "broadcast" => h.calls = <<>>
          /\ h.frame.type = "broadcast" =>
                /\ h.calls = h.subs[h.frame.topic]
                /\ \A a, b \in 1..Len(h.calls) : a < b => h.calls[a] < h.calls[b]
                /\ \A cb \in Listeners :
                      cb \notin Range(h.subs[h.frame.topic]) =>
                          cb \notin Range(h.calls)
    /\ d_pc = "callback" =>
          /\ d_frame.type = "broadcast"
          /\ d_idx = Len(d_calls)
          /\ d_idx <= Len(d_subs[d_frame.topic])
          /\ d_calls = SubSeq(d_subs[d_frame.topic], 1, d_idx)

\* a broadcast of t1 went to the callbacks 1 and 3 and not to callback 2,
\* which is registered for t2 only, and an ack that came next went to none
C19_Witness ==
    /\ Len(d_hist) = 2
    /\ d_hist[1].frame = [type |-> "broadcast", topic |-> "t1"]
    /\ d_hist[1].calls = <<1, 3>>
    /\ d_hist[1].subs["t2"] = <<2>>
    /\ d_hist[2].frame.type = "ack"
    /\ d_hist[2].calls = <<>>

\* C20: when callbacks raise while a broadcast is dispatched, one ErrorEvent
\* is logged for each of them, every callback registered for the topic is
\* awaited all the same, and listen() is back at recv for the next frame.
C20_ListenerIsolation ==
    /\ d_pc \in {"recv", "callback"}
    /\ \A h \in Dealt :
          h.raised # {} =>
              /\ h.calls = h.subs[h.frame.topic]
              /\ h.raised \subseteq Range(h.calls)
              /\ Len(h.log) = Cardinality(h.raised)
              /\ \A i \in 1..Len(h.log) :
                    /\ h.log[i].context = "Callback error for topic"
                    /\ h.log[i].listener \in h.raised
              /\ {h.log[i].listener : i \in 1..Len(h.log)} = h.raised
    /\ d_pc = "callback" =>
          /\ {d_log[i].listener : i \in 1..Len(d_log)} = d_raised
          /\ d_idx <= Len(d_subs[d_frame.topic])
          /\ d_calls = SubSeq(d_subs[d_frame.topic], 1, d_idx)
    /\ (d_pc = "recv" /\ Len(d_hist) < MaxFrames) =>
          \A f \in Frames : ENABLED FrameArrives(f)

\* the first of two callbacks raised, the second was awaited, and the next
\* frame was received and dispatched
C20_Witness ==
    /\ Len(d_hist) = 2
    /\ d_hist[1].calls = <<1, 2>>
    /\ d_hist[1].raised = {1}
    /\ Len(d_hist[1].log) = 1
    /\ d_hist[2].frame.type = "broadcast"
    /\ d_hist[2].calls # <<>>

\* C30: the reactions to different events are not serialized, a slow
\* strategy does not block the handling of later events: while the callback
\* of a frame (on_bet, with the strategies it awaits) is still running,
\* listen() can take the next frame off the socket and dispatch it.
C30_LaterEventsNotBlocked ==
    (d_pc = "callback" /\ Len(d_hist) < MaxFrames) =>
        ENABLED (\E f \in Frames : FrameArrives(f))

----------------------------------------------------------------------------
(* Claims about subscribe and unsubscribe *)

\* the callbacks in the subscription map
Registered(subs) == UNION {Range(subs[tp]) : tp \in Topics}

\* C22: no step removes from the map a callback whose subscribe() call has
\* returned and was made after the unsubscribe() call that removes it
\* started.
C22_NoLateRemoval ==
    [][\A cb \in Listeners :
          (cb \in d_returned /\ cb \in Registered(d_subs)
              /\ cb \notin Registered(d_subs'))
          => cb <= d_unsub.since]_vars

\* C26: the txids of the frames written on the connection are strictly
\* increasing in the order of writing, whatever the interleaving of the
\* keep-alive rounds with the calls of subscribe and unsubscribe; hence no
\* two frames carry the same txid.
C26_TxidIncreasing ==
    \A i, j \in 1..Len(d_sent) :
        i < j => d_sent[i].txid < d_sent[j].txid

\* a ping, a subscribe, an unsubscribe and a second ping went out in turn
C26_Witness ==
    /\ Len(d_sent) = 4
    /\ [i \in 1..4 |-> d_sent[i].type]
           = <<"ping", "subscribe", "unsubscribe", "ping">>
    /\ d_unsub.pc = "send_wait"

----------------------------------------------------------------------------
(* Claims about the WebSocket session *)

\* C21: at most one keep-alive task is running at any moment.
C21_OnePingTask ==
    Cardinality({p \in Socks : ping[p] = "alive"}) <= 1

\* C31: when a call of disconnect() that was suspended returns, the
\* keep-alive task is cancelled and forgotten (_ping_task is None), there is
\* no socket handle (ws is None) and connected and _is_reconnecting are
\* both false.
C31_Shutdown ==
    [][\A c \in Callers :
          (th[c].pc \in {"d_cancel_wait", "d_close_wait"} /\ th'[c].pc = "idle")
          => /\ ping_task' = 0
             /\ ws' = 0
             /\ ~connected'
             /\ ~is_reconnecting'
             /\ \A p \in Socks : ping'[p] # "alive"
      ]_vars

\* C38: in every reachable state connected = true implies that the socket
\* handle ws is set.
C38_ConnectedHasSocket == connected => ws # 0

\* C37: once disconnect() has returned and until connect() is called (or
\* listen() is called anew), the session stays disconnected: connected is
\* false and no task, the receive loop that is running and a reconnect
\* procedure under way included, opens a socket.
C37_StaysDisconnected ==
    [][(shut /\ shut') => (~connected' /\ nsock' = nsock)]_vars

\* C5: no interleaving of overlapping connect() calls opens two sockets: at
\* any moment at most one socket opened by the session is open.
C5_OneLiveSocket == Cardinality(open_socks) <= 1

\* the topics in the subscription map
AllTopics == SubscribedTopics(Session)

\* the topics a step registers a callback under
NewTopics == {tp \in Topics : Len(subscriptions'[tp]) > Len(subscriptions[tp])}

\* C6: a subscribe() made while connected, the socket open, sends on it one
\* subscribe message naming the new topics, and one made while not connected
\* sends nothing; every successful connect or reconnect sends on the new
\* socket one subscribe message naming all topics then in the subscription
\* map (none when the map is empty).
C6_Subscribed ==
    [][/\ NewTopics # {} =>
             IF connected /\ ws # 0 /\ ws \in open_socks
             THEN sub_log' = [sub_log EXCEPT ![ws] = Append(@, NewTopics)]
             ELSE ~connected => sub_log' = sub_log
       /\ nsock' # nsock =>
             /\ ws' = nsock' /\ connected'
             /\ sub_log'[nsock'] = IF AllTopics' = {} THEN <<>>
                                   ELSE <<AllTopics'>>]_vars

\* C6 witness: the topic subscribed on the first socket has been subscribed
\* again, by the reconnect procedure, on the socket that replaced it.
C6_Witness ==
    /\ th["listen"].pc = "recv"
    /\ connected
    /\ ws = 2
    /\ sub_log[1] = <<{"t1"}>>
    /\ sub_log[2] = <<{"t1"}>>

\* C8: within one reconnect procedure the k-th attempt is preceded by a wait
\* of min(reconnect_delay * 2^(k-1), max_reconnect_delay), k counted from 1
\* in each procedure, and no procedure makes more than
\* max_reconnect_attempts attempts.
C8_Backoff ==
    /\ Len(delays) <= max_reconnect_attempts
    /\ \A k \in 1..Len(delays) :
          /\ reconnect_delay * 2 ^ (k - 1) <= max_reconnect_delay
                => delays[k] = reconnect_delay * 2 ^ (k - 1)
          /\ reconnect_delay * 2 ^ (k - 1) > max_reconnect_delay
                => delays[k] = max_reconnect_delay
    /\ th["listen"].pc \in {"r_sleep", "c_cancel_wait", "c_close_wait",
                            "c_handshake"}
          => th["listen"].attempt = Len(delays)

\* C8 witness: the last attempt of a procedure is waiting for its socket,
\* the waits before the later attempts having been capped.
C8_Witness ==
    /\ th["listen"].pc = "c_handshake"
    /\ Len(delays) = max_reconnect_attempts
    /\ delays[1] = reconnect_delay
    /\ delays[max_reconnect_attempts] = max_reconnect_delay

\* C9: when the attempt numbered max_reconnect_attempts fails, no further
\* attempt is made, the session is left with connected and _is_reconnecting
\* false, the ErrorEvent of the exhausted reconnect is logged and listen()
\* returns; listen() once returned makes no attempt again.
C9_ExhaustionIsTerminal ==
    [][/\ ( /\ th["listen"].pc = "c_handshake"
            /\ th["listen"].attempt = max_reconnect_attempts
            /\ th'["listen"] # th["listen"]
            /\ nsock' = nsock )
          => /\ th'["listen"].pc = "done"
             /\ delays' = delays
             /\ ~connected'
             /\ ~is_reconnecting'
             /\ "reconnect_exhausted" \in ws_log'
       /\ th["listen"].pc = "done"
          => th'["listen"] = th["listen"] /\ delays' = delays]_vars

\* C9 witness: listen() has returned after the last attempt failed.
C9_Witness ==
    /\ th["listen"].pc = "done"
    /\ th["listen"].attempt = max_reconnect_attempts
    /\ Len(delays) = max_reconnect_attempts
    /\ "reconnect_exhausted" \in ws_log
    /\ ~connected
    /\ ~is_reconnecting

\* where the listen task is while it runs _reconnect
ReconnectPcs == {"r_cancel_wait", "r_close_wait", "r_sleep", "c_cancel_wait",
                 "c_close_wait", "c_handshake"}

\* C7: a keep-alive task whose ping cannot be sent leaves the session not
\* connected and ends; a recv that raises on a lost connection leaves the
\* session not connected with _reconnect started; and once the session's
\* keep-alive task has failed to send its ping while listen() waits in its
\* receive loop, _reconnect is eventually started.
C7_FailureStartsReconnect ==
    /\ [][/\ \A p \in Socks :
               (ping[p] = "alive" /\ ping'[p] = "failed") => ~connected'
          /\ ( /\ th["listen"].pc = "recv"
               /\ th["listen"].rsock \notin open_socks
               /\ th'["listen"] # th["listen"] )
                => (~connected' /\ th'["listen"].pc \in ReconnectPcs)]_vars
    /\ ( /\ th["listen"].pc = "recv"
         /\ ~connected
         /\ ping_task # 0
         /\ ping[ping_task] = "failed" )
          ~> (th["listen"].pc \in ReconnectPcs)

============================================================================
